---- MODULE Spec2Model ----
(***************************************************************************)
(* Worker pool of the chat backend: WorkerManager (workerManager.js) and   *)
(* the chat worker thread (chatWorker.js) with the Redis client it uses.   *)
(*                                                                         *)
(* Spec      the pool: round-robin dispatch, the pending table, the        *)
(*           worker's queue, worker faults and exits.                      *)
(* ExitSpec  Spec together with each worker's store connection and its     *)
(*           reconnectWithBackoff runs.                                    *)
(* SaveSpec  one worker running SAVE_MESSAGE tasks, step by step, against  *)
(*           the durable store and the room's cache entry.                 *)
(* SaversSpec  two workers, each running one SAVE_MESSAGE task for the     *)
(*           same room on the shared store and cache entry.                *)
(* LoadSpec  one worker running LOAD_MESSAGES tasks against a room of      *)
(*           messages and its cache entry, the cache server up or down.    *)
(* ReadSpec  two workers running UPDATE_READ_STATUS tasks on a shared      *)
(*           store and cache entry.                                        *)
(* BatchSpec one worker, one UPDATE_READ_STATUS task over up to 250 ids.   *)
(* ReconnSpec  the store connection of one worker: its events and the      *)
(*           reconnectWithBackoff runs they start.                         *)
(* UpdateSpec  one worker running UPDATE_CACHE tasks.                      *)
(* TermSpec  WorkerManager.terminate on a pool without tasks.              *)
(* ShutdownSpec  TermSpec on a pool with tasks in progress.                *)
(* TaskSpec  one worker taking tasks of known and unknown types from its   *)
(*           queue through processMessage, SAVE_MESSAGE step by step.      *)
(***************************************************************************)
EXTENDS Integers, Sequences, FiniteSets, TLC

\* ---------------------------------------------------------------- bounds
MaxWorkers == 2
MaxTasks == 3
\* SaveSpec: the SAVE_MESSAGE tasks run, and the longest short cache list at the start
MaxSaves == 2
MaxPrevLen == 2
\* the LOAD_MESSAGES tasks run, the largest limit asked for, and the most messages
\* a room holds when they run
MaxLoads == 2
MaxLimit == 2
MaxStored == 4
\* the UPDATE_READ_STATUS tasks run by two workers, the users and the messages of
\* their room; and the longest list of message ids one task is given
MaxReads == 2
MaxUsers == 2
MaxMsgs == 2
MaxBatchIds == 250
\* the reconnectWithBackoff runs started in a worker
MaxRuns == 2
\* the UPDATE_CACHE tasks run
MaxUpdates == 2

\* ------------------------------------------------------ program constants
MaxReconnectAttempts == 5
BATCH_SIZE == 100
RETRY_LIMIT == 3
CACHE_TTL == 300
\* the literal of cachedMessages.slice(0, 100)
CacheCap == 100

TaskIds == 1..MaxTasks
KnownTypes == {"SAVE_MESSAGE", "LOAD_MESSAGES", "UPDATE_CACHE", "UPDATE_READ_STATUS"}
\* The task types submitted: one handled type and one the switch does not know.
TaskTypes == {"SAVE_MESSAGE", "PING"}

VARIABLES
    workerCount,        \* the constructor's argument: this.workers.length
    currentWorkerIndex, \* WorkerManager.currentWorkerIndex
    messageCallbacks,   \* WorkerManager.messageCallbacks: id -> [workerId]
    tasks,              \* every submission so far: id -> [worker]
    settled,            \* id -> the calls of resolve/reject made for it, in order
    wstate,             \* per worker: "init", "running", "exited", "faulted"
    port,               \* per worker: messages [id, type] posted to it, not yet received
    messageQueue,       \* per worker: chatWorker.js messageQueue
    isProcessing,       \* per worker: chatWorker.js isProcessing
    current,            \* per worker: messages dequeued and awaiting processMessage
    immediates,         \* per worker: setImmediate(processMessageQueue) callbacks due
    reconnect,          \* per worker: attempt of the running reconnectWithBackoff, 0 if none
    toManager,          \* per worker: events emitted to the manager, not yet handled
    received,           \* per worker: ids in the order the worker received them
    started,            \* per worker: ids in the order their processing started
    replied,            \* per worker: ids in the order their replies were posted
    exitCause,          \* per worker: why the thread called process.exit, "" if it did not
    faultHandled,       \* workers whose 'error' event the manager has handled
    survivors,          \* ids left pending by the 'error' handler of another worker
    orphaned,           \* ids pending on a worker when its thread called process.exit
    \* ---- one handler run (SaveSpec)
    hpc,                \* where handleSaveMessage stands: the await it is suspended at
    retryCount,         \* handleSaveMessage: retryCount
    savedMessage,       \* handleSaveMessage: savedMessage of the current attempt
    cachedMessages,     \* handleSaveMessage: cachedMessages of the current attempt
    store,              \* the durable store: the message documents created, oldest first
    cache,              \* Redis: the entry of the room's key
    cacheFailed,        \* whether the cache update of the current attempt threw
    cacheAtStart,       \* the entry of the room's key when the task started
    savesBegun,         \* SAVE_MESSAGE tasks started so far
    \* ---- handleLoadMessages (LoadSpec); it shares hpc, retryCount, store, cache
    payload,            \* the payload of the task: [before, limit], before 0 when absent
    messages,           \* handleLoadMessages: messages of the current attempt
    result,             \* what the task returned, or the error it threw
    prevLoad,           \* the task before this one: [payload, result, emptyCache]
    isConnected,        \* RedisClient.isConnected
    redisUp,            \* whether the Redis server can be reached
    storeFault,         \* whether a store call of the current task has failed
    loadsBegun,         \* LOAD_MESSAGES tasks started so far
    \* ---- handleReadStatus (ReadSpec, BatchSpec); it shares store and cache
    readStatus,         \* per worker: the position and the locals of handleReadStatus
    readsLeft,          \* UPDATE_READ_STATUS tasks still to be started
    \* ---- initializeWorker and reconnectWithBackoff of one worker (ReconnSpec)
    readyState,         \* mongoose.connection.readyState: 0 disconnected, 1 connected
    runs,               \* the reconnectWithBackoff runs started, in order
    exited,             \* whether process.exit(1) has ended the thread
    \* ---- handleUpdateCache (UpdateSpec); it shares hpc, retryCount, cache
    updMessages,        \* payload.messages of the task
    prevUpdate,         \* the task before this one: its list, the entry it left, its end
    updatesBegun,       \* UPDATE_CACHE tasks started so far
    \* ---- WorkerManager.terminate (TermSpec)
    termination,        \* per worker: worker.terminate() and the callback awaiting it
    shutdown,           \* the promise terminate() returns
    \* ---- handleSaveMessage in several workers (SaversSpec); it shares store, cache
    saveStatus          \* per worker: the position and the locals of handleSaveMessage

mgrVars == <<workerCount, currentWorkerIndex, messageCallbacks, tasks, settled>>
wrkVars == <<wstate, port, messageQueue, isProcessing, current, immediates, reconnect>>
histVars == <<received, started, replied, exitCause, faultHandled, survivors, orphaned>>
poolVars == <<mgrVars, wrkVars, toManager, histVars>>
hVars == <<hpc, retryCount, savedMessage, cachedMessages, store, cache, cacheFailed,
           cacheAtStart, savesBegun>>
loadVars == <<payload, messages, result, prevLoad, isConnected, redisUp, storeFault,
              loadsBegun>>
readVars == <<readStatus, readsLeft>>
reconnVars == <<readyState, runs, exited>>
updVars == <<updMessages, prevUpdate, updatesBegun>>
termVars == <<termination, shutdown>>
xVars == <<loadVars, readVars, reconnVars, updVars, termVars, saveStatus>>
\* What handleLoadMessages leaves alone.
notLoad == <<poolVars, savedMessage, cachedMessages, cacheFailed, savesBegun, readVars, reconnVars, updVars, termVars,
            saveStatus>>
\* What handleReadStatus leaves alone.
notRead == <<poolVars, hpc, retryCount, savedMessage, cachedMessages, cacheFailed,
             cacheAtStart, savesBegun, loadVars, reconnVars, updVars,
             termVars, saveStatus>>
\* What reconnectWithBackoff leaves alone.
notReconn == <<poolVars, hVars, loadVars, readVars, updVars, termVars, saveStatus>>
\* What handleUpdateCache leaves alone.
notUpdate == <<poolVars, savedMessage, cachedMessages, store, cacheFailed, savesBegun,
               loadVars, readVars, reconnVars, termVars, saveStatus>>
\* What terminate leaves alone.
notTerm == <<poolVars, hVars, loadVars, readVars, reconnVars, updVars, saveStatus>>
vars == <<poolVars, hVars, xVars>>

\* ------------------------------------------------------------- helpers
Workers == 0..(workerCount - 1)
Pending == DOMAIN messageCallbacks
Submitted == DOMAIN tasks
Alive(i) == wstate[i] \in {"init", "running"}
Ids(ms) == [k \in 1..Len(ms) |-> ms[k].id]
\* f without the keys in S
Without(f, S) == [k \in (DOMAIN f) \ S |-> f[k]]
\* f with key k set to v (Map.set)
MapSet(f, k, v) == [x \in (DOMAIN f) \cup {k} |-> IF x = k THEN v ELSE f[x]]

MessageEvent(id, err, resultErr) ==
    [ev |-> "message", id |-> id, error |-> err, resultError |-> resultErr]
ErrorEvent == [ev |-> "error", id |-> 0, error |-> FALSE, resultError |-> FALSE]
ExitEvent == [ev |-> "exit", id |-> 0, error |-> FALSE, resultError |-> FALSE]

\* ---------------------------------------------------------------- Init
PoolInit(sizes) ==
    /\ workerCount \in sizes
    /\ currentWorkerIndex = 0
    /\ messageCallbacks = <<>>
    /\ tasks = <<>>
    /\ settled = [id \in TaskIds |-> <<>>]
    /\ wstate = [i \in Workers |-> "init"]
    /\ port = [i \in Workers |-> <<>>]
    /\ messageQueue = [i \in Workers |-> <<>>]
    /\ isProcessing = [i \in Workers |-> FALSE]
    /\ current = [i \in Workers |-> {}]
    /\ immediates = [i \in Workers |-> 0]
    /\ reconnect = [i \in Workers |-> 0]
    /\ toManager = [i \in Workers |-> <<>>]
    /\ received = [i \in Workers |-> <<>>]
    /\ started = [i \in Workers |-> <<>>]
    /\ replied = [i \in Workers |-> <<>>]
    /\ exitCause = [i \in Workers |-> ""]
    /\ faultHandled = {}
    /\ survivors = {}
    /\ orphaned = {}

\* ------------------------------------------------- values of the handlers
\* A message: the Mongoose document Message.create returns (repr "doc"), or the
\* plain object JSON.stringify and JSON.parse make of it (repr "json").
Doc(id) == [id |-> id, repr |-> "doc"]
ToJSON(m) == [m EXCEPT !.repr = "json"]
\* A JavaScript value a handler holds: null or an array of messages.
JsNull == [type |-> "null", items |-> <<>>]
JsArray(items) == [type |-> "array", items |-> items]
\* JSON.stringify(value) and JSON.parse(text): the text keeps the value's type,
\* and every message in it is in its JSON form.
JSONStringify(v) == [type |-> v.type, items |-> [k \in 1..Len(v.items) |-> ToJSON(v.items[k])]]
JSONParse(text) == [type |-> text.type, items |-> text.items]
\* A Redis key: absent, or a string with a time-to-live (0: none).
NoEntry == [present |-> FALSE, text |-> JSONStringify(JsNull), ttl |-> 0]
Min(a, b) == IF a < b THEN a ELSE b
\* Array.prototype.slice(0, n)
Slice(items, n) == SubSeq(items, 1, IF Len(items) < n THEN Len(items) ELSE n)
\* The n most recent messages with ids first..(first + n - 1), newest first, as cached.
CachedRun(first, n) == [k \in 1..n |-> ToJSON(Doc(first + n - k))]

\* The handler of the one worker of SaveSpec is not running.
HandlerInit(entries) ==
    /\ hpc = "idle"
    /\ retryCount = 0
    /\ savedMessage = Doc(0)
    /\ cachedMessages = JsNull
    /\ cache \in entries
    /\ store = [k \in 1..(IF cache.present THEN Len(cache.text.items) ELSE 0) |-> Doc(k)]
    /\ cacheFailed = FALSE
    /\ cacheAtStart = cache
    /\ savesBegun = 0

\* No LOAD_MESSAGES task has run.
NoResult == [success |-> FALSE, messages |-> <<>>, hasMore |-> FALSE,
             oldestTimestamp |-> 0, fromCache |-> FALSE, error |-> ""]
NoLoad == [payload |-> [before |-> 0, limit |-> 0], result |-> NoResult,
           emptyCache |-> FALSE, ran |-> FALSE]
LoadOff(ups) ==
    /\ payload = [before |-> 0, limit |-> 0]
    /\ messages = JsNull
    /\ result = NoResult
    /\ prevLoad = NoLoad
    /\ redisUp \in ups
    /\ isConnected \in (IF redisUp THEN {TRUE} ELSE BOOLEAN)
    /\ storeFault = FALSE
    /\ loadsBegun = 0

\* No UPDATE_READ_STATUS task runs.
ReadOff == readStatus = <<>> /\ readsLeft = 0

\* No reconnection is modelled.
ReconnOff == readyState = 1 /\ runs = <<>> /\ exited = FALSE

\* No UPDATE_CACHE task has run.
NoUpdate == [messages |-> <<>>, cacheAfter |-> NoEntry, ok |-> FALSE]
UpdateOff == updMessages = <<>> /\ prevUpdate = NoUpdate /\ updatesBegun = 0

\* terminate() has not been called.
NotTerminating == [call |-> "none", wrapper |-> "none"]
TermOff == termination = [i \in Workers |-> NotTerminating] /\ shutdown = "idle"

XOff == LoadOff({TRUE}) /\ ReadOff /\ ReconnOff /\ UpdateOff /\ TermOff /\ saveStatus = <<>>

Init == PoolInit(1..MaxWorkers) /\ HandlerInit({NoEntry}) /\ XOff

\* ------------------------------------------------------- WorkerManager
\* getNextWorker: the worker at the index, and the index advanced modulo the pool.
getNextWorker_Stuck(idx, n) == [worker |-> idx, next |-> idx]
getNextWorker(idx, n) == [worker |-> idx, next |-> (idx + 1) % n]

\* executeTask(type, payload): a fresh id (Date.now()-Math.random()), the next
\* worker, the pending entry, and the message posted to that worker. A message
\* posted to a thread that has stopped is discarded.
ExecuteTask(type) ==
    LET id == Cardinality(Submitted) + 1
        nw == getNextWorker(currentWorkerIndex, workerCount)
        w  == nw.worker
    IN  /\ id <= MaxTasks
        /\ currentWorkerIndex' = nw.next
        /\ messageCallbacks' = MapSet(messageCallbacks, id, [workerId |-> w])
        /\ tasks' = MapSet(tasks, id, [worker |-> w])
        /\ port' = IF Alive(w)
                   THEN [port EXCEPT ![w] = Append(@, [id |-> id, type |-> type])]
                   ELSE port
        /\ UNCHANGED <<workerCount, settled, wstate, messageQueue, isProcessing, current,
                       immediates, reconnect, toManager, histVars, hVars, xVars>>

\* worker.on("message"): settle and delete the entry of response.id, if there is one.
MessageHandler_NoDelete(cbs, stl, response) ==
    IF response.id \in DOMAIN cbs
    THEN [callbacks |-> cbs,
          settled |-> [stl EXCEPT ![response.id] =
                Append(@, [how |-> IF response.error THEN "reject" ELSE "resolve",
                           by |-> "message"])]]
    ELSE [callbacks |-> cbs, settled |-> stl]
MessageHandler(cbs, stl, response) ==
    IF response.id \in DOMAIN cbs
    THEN [callbacks |-> Without(cbs, {response.id}),
          settled |-> [stl EXCEPT ![response.id] =
                Append(@, [how |-> IF response.error THEN "reject" ELSE "resolve",
                           by |-> "message"])]]
    ELSE [callbacks |-> cbs, settled |-> stl]

OnWorkerMessage(i) ==
    /\ toManager[i] # <<>>
    /\ Head(toManager[i]).ev = "message"
    /\ LET r == MessageHandler(messageCallbacks, settled, Head(toManager[i]))
       IN  /\ messageCallbacks' = r.callbacks
           /\ settled' = r.settled
    /\ toManager' = [toManager EXCEPT ![i] = Tail(@)]
    /\ UNCHANGED <<workerCount, currentWorkerIndex, tasks, wrkVars, histVars, hVars, xVars>>

\* worker.on("error") of worker i: reject and delete every entry with workerId = i.
ErrorVictims_First(cbs, i) ==
    LET mine == {id \in DOMAIN cbs : cbs[id].workerId = i}
    IN  IF mine = {} THEN {} ELSE {CHOOSE id \in mine : \A o \in mine : id <= o}
ErrorVictims_All(cbs, i) == DOMAIN cbs
ErrorVictims(cbs, i) == {id \in DOMAIN cbs : cbs[id].workerId = i}

OnWorkerError(i) ==
    /\ toManager[i] # <<>>
    /\ Head(toManager[i]).ev = "error"
    /\ LET victims == ErrorVictims(messageCallbacks, i)
       IN  /\ settled' = [id \in TaskIds |->
                            IF id \in victims
                            THEN Append(settled[id], [how |-> "reject", by |-> "error"])
                            ELSE settled[id]]
           /\ messageCallbacks' = Without(messageCallbacks, victims)
    /\ toManager' = [toManager EXCEPT ![i] = Tail(@)]
    /\ faultHandled' = faultHandled \cup {i}
    /\ survivors' = survivors \cup DOMAIN messageCallbacks'
    /\ UNCHANGED <<workerCount, currentWorkerIndex, tasks, wrkVars, received, started,
                   replied, exitCause, orphaned, hVars, xVars>>

\* The 'exit' event of a worker: the constructor registers no listener for it.
OnWorkerExit(i) ==
    /\ toManager[i] # <<>>
    /\ Head(toManager[i]).ev = "exit"
    /\ toManager' = [toManager EXCEPT ![i] = Tail(@)]
    /\ UNCHANGED <<mgrVars, wrkVars, histVars, hVars, xVars>>

\* --------------------------------------------------------- chatWorker
\* The thread of worker i stops: its memory and its port are gone.
Stopped(i, state) ==
    /\ wstate' = [wstate EXCEPT ![i] = state]
    /\ port' = [port EXCEPT ![i] = <<>>]
    /\ messageQueue' = [messageQueue EXCEPT ![i] = <<>>]
    /\ isProcessing' = [isProcessing EXCEPT ![i] = FALSE]
    /\ current' = [current EXCEPT ![i] = {}]
    /\ immediates' = [immediates EXCEPT ![i] = 0]
    /\ reconnect' = [reconnect EXCEPT ![i] = 0]

\* process.exit(code) in a worker thread stops the thread: the manager's Worker
\* object emits 'exit', never 'error'.
ProcessExit(i, cause) ==
    /\ Stopped(i, "exited")
    /\ exitCause' = [exitCause EXCEPT ![i] = cause]
    /\ orphaned' = orphaned \cup {id \in Pending : messageCallbacks[id].workerId = i}
    /\ toManager' = [toManager EXCEPT ![i] = Append(@, ExitEvent)]

\* initializeWorker().then(...): the 'message' listener is registered.
WorkerInitialized(i) ==
    /\ wstate[i] = "init"
    /\ wstate' = [wstate EXCEPT ![i] = "running"]
    /\ UNCHANGED <<mgrVars, port, messageQueue, isProcessing, current, immediates,
                   reconnect, toManager, histVars, hVars, xVars>>

\* initializeWorker().catch(...): process.exit(1).
WorkerInitFailed(i) ==
    /\ wstate[i] = "init"
    /\ ProcessExit(i, "init")
    /\ UNCHANGED <<mgrVars, received, started, replied, faultHandled, survivors, hVars, xVars>>

\* processMessageQueue up to its first await: dequeue the head unless busy or empty.
\* q: the queue, busy: isProcessing, cur: the ids in flight.
processMessageQueue_NoGuard(q, busy, cur) ==
    IF Len(q) = 0
    THEN [queue |-> q, busy |-> busy, cur |-> cur, begun |-> <<>>]
    ELSE [queue |-> Tail(q), busy |-> TRUE, cur |-> cur \cup {Head(q)},
          begun |-> <<Head(q)>>]
processMessageQueue_Pop(q, busy, cur) ==
    IF busy \/ Len(q) = 0
    THEN [queue |-> q, busy |-> busy, cur |-> cur, begun |-> <<>>]
    ELSE [queue |-> SubSeq(q, 1, Len(q) - 1), busy |-> TRUE,
          cur |-> cur \cup {q[Len(q)]}, begun |-> <<q[Len(q)]>>]
processMessageQueue(q, busy, cur) ==
    IF busy \/ Len(q) = 0
    THEN [queue |-> q, busy |-> busy, cur |-> cur, begun |-> <<>>]
    ELSE [queue |-> Tail(q), busy |-> TRUE, cur |-> cur \cup {Head(q)},
          begun |-> <<Head(q)>>]

\* parentPort.on("message"): push, and start processing when idle.
OnPortMessage(i) ==
    /\ wstate[i] = "running"
    /\ port[i] # <<>>
    /\ LET m == Head(port[i])
           q == Append(messageQueue[i], m)
           r  == IF ~isProcessing[i]
                 THEN processMessageQueue(q, isProcessing[i], current[i])
                 ELSE [queue |-> q, busy |-> isProcessing[i], cur |-> current[i],
                       begun |-> <<>>]
       IN  /\ port' = [port EXCEPT ![i] = Tail(@)]
           /\ messageQueue' = [messageQueue EXCEPT ![i] = r.queue]
           /\ isProcessing' = [isProcessing EXCEPT ![i] = r.busy]
           /\ current' = [current EXCEPT ![i] = r.cur]
           /\ received' = [received EXCEPT ![i] = Append(@, m.id)]
           /\ started' = [started EXCEPT ![i] = @ \o Ids(r.begun)]
    /\ UNCHANGED <<mgrVars, wstate, immediates, reconnect, toManager, replied,
                   exitCause, faultHandled, survivors, orphaned, hVars, xVars>>

\* setImmediate(processMessageQueue) fires.
RunImmediate(i) ==
    /\ wstate[i] = "running"
    /\ immediates[i] > 0
    /\ LET r == processMessageQueue(messageQueue[i], isProcessing[i], current[i])
       IN  /\ messageQueue' = [messageQueue EXCEPT ![i] = r.queue]
           /\ isProcessing' = [isProcessing EXCEPT ![i] = r.busy]
           /\ current' = [current EXCEPT ![i] = r.cur]
           /\ started' = [started EXCEPT ![i] = @ \o Ids(r.begun)]
    /\ immediates' = [immediates EXCEPT ![i] = @ - 1]
    /\ UNCHANGED <<mgrVars, wstate, port, reconnect, toManager, received, replied,
                   exitCause, faultHandled, survivors, orphaned, hVars, xVars>>

\* What processMessage can make of a task: a handler succeeds or exhausts its
\* retries; a type the switch does not know throws at once.
Outcomes(type) == IF type \in KnownTypes THEN {"ok", "err"} ELSE {"err"}

\* processMessage catches every error and RETURNS {error: message}; the value
\* returned is posted as {id, result}. The reply carries a top-level error only
\* from the catch of processMessageQueue (a message without data).
Reply(id, hasData, oc) ==
    IF hasData THEN MessageEvent(id, FALSE, oc = "err") ELSE MessageEvent(id, TRUE, FALSE)

\* The finally block of processMessageQueue, run after the reply of a task
\* whatever its outcome oc: isProcessing = false, and the next run is scheduled
\* with setImmediate when the queue is not empty.
FinallyBlock_SkippedOnError(oc, q, busy, imm) ==
    IF oc = "err"
    THEN [busy |-> busy, immediates |-> imm]
    ELSE [busy |-> FALSE, immediates |-> IF Len(q) > 0 THEN imm + 1 ELSE imm]
FinallyBlock(oc, q, busy, imm) ==
    [busy |-> FALSE, immediates |-> IF Len(q) > 0 THEN imm + 1 ELSE imm]

\* The awaited processMessage of a task in flight returns: the reply is posted,
\* isProcessing is cleared, and the next run is scheduled if the queue is not empty.
CompleteTask(i) ==
    /\ wstate[i] = "running"
    /\ \E m \in current[i] : \E oc \in Outcomes(m.type) :
        LET f == FinallyBlock(oc, messageQueue[i], isProcessing[i], immediates[i])
        IN  /\ toManager' = [toManager EXCEPT ![i] = Append(@, Reply(m.id, TRUE, oc))]
            /\ replied' = [replied EXCEPT ![i] = Append(@, m.id)]
            /\ current' = [current EXCEPT ![i] = @ \ {m}]
            /\ isProcessing' = [isProcessing EXCEPT ![i] = f.busy]
            /\ immediates' = [immediates EXCEPT ![i] = f.immediates]
    /\ UNCHANGED <<mgrVars, wstate, port, messageQueue, reconnect, received, started,
                   exitCause, faultHandled, survivors, orphaned, hVars, xVars>>

\* The store connection emits 'error' or 'disconnected': reconnectWithBackoff().
StoreDisconnected(i) ==
    /\ wstate[i] = "running"
    /\ reconnect[i] = 0
    /\ reconnect' = [reconnect EXCEPT ![i] = 1]
    /\ UNCHANGED <<mgrVars, wstate, port, messageQueue, isProcessing, current,
                   immediates, toManager, histVars, hVars, xVars>>

\* One attempt of reconnectWithBackoff after its delay: initializeWorker succeeds,
\* or throws and the next attempt is entered.
ReconnectAttempt(i) ==
    /\ wstate[i] = "running"
    /\ reconnect[i] \in 1..MaxReconnectAttempts
    /\ \E ok \in BOOLEAN :
        reconnect' = [reconnect EXCEPT ![i] = IF ok THEN 0 ELSE @ + 1]
    /\ UNCHANGED <<mgrVars, wstate, port, messageQueue, isProcessing, current,
                   immediates, toManager, histVars, hVars, xVars>>

\* reconnectWithBackoff entered with attempt > maxAttempts: process.exit(1).
ReconnectExhausted(i) ==
    /\ wstate[i] = "running"
    /\ reconnect[i] > MaxReconnectAttempts
    /\ ProcessExit(i, "reconnect")
    /\ UNCHANGED <<mgrVars, received, started, replied, faultHandled, survivors, hVars, xVars>>

\* An uncaught exception in the thread of worker i: the thread stops and the
\* manager's Worker object emits 'error', then 'exit'.
WorkerFault(i) ==
    /\ Alive(i)
    /\ Stopped(i, "faulted")
    /\ toManager' = [toManager EXCEPT ![i] = @ \o <<ErrorEvent, ExitEvent>>]
    /\ UNCHANGED <<mgrVars, histVars, hVars, xVars>>

\* ---------------------------------------------------------------- Next
Next ==
    \/ \E type \in TaskTypes : ExecuteTask(type)
    \/ \E i \in Workers : OnWorkerMessage(i)
    \/ \E i \in Workers : OnWorkerError(i)
    \/ \E i \in Workers : OnWorkerExit(i)
    \/ \E i \in Workers : WorkerInitialized(i)
    \/ \E i \in Workers : WorkerInitFailed(i)
    \/ \E i \in Workers : OnPortMessage(i)
    \/ \E i \in Workers : RunImmediate(i)
    \/ \E i \in Workers : CompleteTask(i)
    \/ \E i \in Workers : WorkerFault(i)

Spec == Init /\ [][Next]_vars

\* The pool together with the store connection of each worker.
NextExit ==
    \/ Next
    \/ \E i \in Workers : StoreDisconnected(i)
    \/ \E i \in Workers : ReconnectAttempt(i)
    \/ \E i \in Workers : ReconnectExhausted(i)

ExitSpec == Init /\ [][NextExit]_vars

\* ------------------------------------------------------- RedisClient
\* RedisClient.set(key, value, options = {}): the value is stringified; the key
\* gets a time-to-live only when options.ttl is set (setEx), none otherwise.
\* options: [isObject, ttl], the third argument as the caller passed it.
RedisSet(value, options) ==
    [present |-> TRUE,
     text |-> JSONStringify(value),
     ttl |-> IF options.isObject /\ options.ttl > 0 THEN options.ttl ELSE 0]
\* RedisClient.get(key): null when the key is absent, else the parsed text.
RedisGet(entry) == IF ~entry.present THEN JsNull ELSE JSONParse(entry.text)
\* The handlers call redisClient.set(key, value, "EX", CACHE_TTL): options is the
\* string "EX", which has no ttl property; the fourth argument is not read.
ExOptions == [isObject |-> FALSE, ttl |-> 0]

\* -------------------------------------------------- handleSaveMessage
\* (await redisClient.get(redisKey)) || []
OrEmptyArray(v) == IF v.type = "null" THEN JsArray(<<>>) ELSE v
\* The value handleSaveMessage writes back: the saved message put in front of
\* the cached array and the first 100 kept, or the saved message alone when the
\* cached value is no array.
SaveCacheValue_Push(cached, saved) ==
    IF cached.type = "array"
    THEN JsArray(Slice(Append(cached.items, saved), CacheCap))
    ELSE JsArray(<<saved>>)
SaveCacheValue_NoSlice(cached, saved) ==
    IF cached.type = "array"
    THEN JsArray(<<saved>> \o cached.items)
    ELSE JsArray(<<saved>>)
SaveCacheValue_Alone(cached, saved) == JsArray(<<saved>>)
SaveCacheValue(cached, saved) ==
    IF cached.type = "array"
    THEN JsArray(Slice(<<saved>> \o cached.items, CacheCap))
    ELSE JsArray(<<saved>>)

\* processMessage calls handleSaveMessage(payload): retryCount = 0, and the first
\* attempt awaits Message.create.
SaveBegin ==
    /\ hpc \in {"idle", "done", "failed"}
    /\ savesBegun < MaxSaves
    /\ savesBegun' = savesBegun + 1
    /\ hpc' = "create"
    /\ retryCount' = 0
    /\ cacheFailed' = FALSE
    /\ cacheAtStart' = cache
    /\ UNCHANGED <<poolVars, xVars, savedMessage, cachedMessages, store, cache>>

\* The catch of the retry loop: count the failure; give up at RETRY_LIMIT, else
\* wait RETRY_DELAY * retryCount.
SaveCatch ==
    /\ retryCount' = retryCount + 1
    /\ hpc' = IF retryCount + 1 = RETRY_LIMIT THEN "failed" ELSE "delay"

\* Message.create(message) settles: the document is stored and returned; or the
\* call throws, with the document stored or not (a write the store applied
\* whose acknowledgement was lost).
SaveCreate ==
    /\ hpc = "create"
    /\ \E ok \in BOOLEAN, written \in BOOLEAN :
        /\ ok => written
        /\ store' = IF written THEN Append(store, Doc(Len(store) + 1)) ELSE store
        /\ IF ok
           THEN /\ savedMessage' = Doc(Len(store) + 1)
                /\ hpc' = "populate"
                /\ UNCHANGED retryCount
           ELSE /\ SaveCatch
                /\ UNCHANGED savedMessage
    /\ UNCHANGED <<poolVars, xVars, cachedMessages, cache, cacheFailed, cacheAtStart, savesBegun>>

\* savedMessage.populate(...) settles.
SavePopulate ==
    /\ hpc = "populate"
    /\ \E ok \in BOOLEAN :
        IF ok
        THEN hpc' = "cacheGet" /\ UNCHANGED retryCount
        ELSE SaveCatch
    /\ UNCHANGED <<poolVars, xVars, savedMessage, cachedMessages, store, cache, cacheFailed,
                   cacheAtStart, savesBegun>>

\* The cache update of a handler sits in a try of its own, whose catch
\* (redisError) only logs: the error does not reach the catch of the retry loop.
RedisErrorCaught_Rethrown == FALSE
RedisErrorCaught == TRUE

\* A cache call of handleSaveMessage has thrown: the inner catch logs and the
\* attempt goes on to return {success: true, message: savedMessage}.
SaveRedisError ==
    /\ cacheFailed' = TRUE
    /\ IF RedisErrorCaught
       THEN hpc' = "done" /\ UNCHANGED retryCount
       ELSE SaveCatch

\* redisClient.get(redisKey) settles; a throw is caught by the inner catch and
\* the attempt returns success.
SaveCacheGet ==
    /\ hpc = "cacheGet"
    /\ \E ok \in BOOLEAN :
        IF ok
        THEN /\ cachedMessages' = OrEmptyArray(RedisGet(cache))
             /\ hpc' = "cacheSet"
             /\ UNCHANGED <<cacheFailed, retryCount>>
        ELSE /\ SaveRedisError
             /\ UNCHANGED cachedMessages
    /\ UNCHANGED <<poolVars, xVars, savedMessage, store, cache, cacheAtStart, savesBegun>>

\* redisClient.set(redisKey, ..., "EX", CACHE_TTL) settles; a throw is caught by
\* the inner catch. Either way the attempt returns {success: true, message}.
SaveCacheSet ==
    /\ hpc = "cacheSet"
    /\ \E ok \in BOOLEAN :
        IF ok
        THEN /\ cache' = RedisSet(SaveCacheValue(cachedMessages, savedMessage), ExOptions)
             /\ hpc' = "done"
             /\ UNCHANGED <<cacheFailed, retryCount>>
        ELSE /\ SaveRedisError
             /\ UNCHANGED cache
    /\ UNCHANGED <<poolVars, xVars, savedMessage, cachedMessages, store, cacheAtStart,
                   savesBegun>>

\* The delay of the catch has passed: initializeWorker() is awaited.
SaveDelay ==
    /\ hpc = "delay"
    /\ hpc' = "reinit"
    /\ UNCHANGED <<poolVars, xVars, retryCount, savedMessage, cachedMessages, store, cache,
                   cacheFailed, cacheAtStart, savesBegun>>

\* initializeWorker() settles: the loop makes its next attempt, or the throw
\* leaves handleSaveMessage and the task fails.
SaveReinit ==
    /\ hpc = "reinit"
    /\ \E ok \in BOOLEAN : hpc' = IF ok THEN "create" ELSE "failed"
    /\ UNCHANGED <<poolVars, xVars, retryCount, savedMessage, cachedMessages, store, cache,
                   cacheFailed, cacheAtStart, savesBegun>>

\* The room's entry when the first task starts: absent, a short list, or a list
\* at the cap (100 saves), one below it, or one above it (an UPDATE_CACHE list).
SaveEntries ==
    {NoEntry} \cup
    {RedisSet(JsArray(CachedRun(1, n)), ExOptions) :
        n \in (0..MaxPrevLen) \cup {CacheCap - 1, CacheCap, CacheCap + 1}}

SaveInit == PoolInit({1}) /\ HandlerInit(SaveEntries) /\ XOff

SaveNext ==
    \/ SaveBegin
    \/ SaveCreate
    \/ SavePopulate
    \/ SaveCacheGet
    \/ SaveCacheSet
    \/ SaveDelay
    \/ SaveReinit

SaveSpec == SaveInit /\ [][SaveNext]_vars

\* -------------------------------- handleSaveMessage in several workers
\* Each worker w has its own run of handleSaveMessage, saveStatus[w]; the runs
\* share the store and the cache and leave everything else alone.
\* The catch of the retry loop in worker w.
SaverCatch(w, st) ==
    saveStatus' = [saveStatus EXCEPT ![w] =
        [st EXCEPT !.retryCount = @ + 1,
                   !.pc = IF st.retryCount + 1 = RETRY_LIMIT THEN "failed" ELSE "delay"]]

\* Message.create(message) of worker w settles, as in SaveCreate.
SaverCreate(w) ==
    LET st == saveStatus[w]
    IN  /\ st.pc = "create"
        /\ \E ok \in BOOLEAN, written \in BOOLEAN :
            /\ ok => written
            /\ store' = IF written THEN Append(store, Doc(Len(store) + 1)) ELSE store
            /\ IF ok
               THEN saveStatus' = [saveStatus EXCEPT ![w] =
                        [st EXCEPT !.savedMessage = Doc(Len(store) + 1),
                                   !.pc = "populate"]]
               ELSE SaverCatch(w, st)
        /\ UNCHANGED <<poolVars, hpc, retryCount, savedMessage, cachedMessages, cacheFailed,
                       cacheAtStart, savesBegun, cache, loadVars, readVars, reconnVars,
                       updVars, termVars>>

\* savedMessage.populate(...) of worker w settles.
SaverPopulate(w) ==
    LET st == saveStatus[w]
    IN  /\ st.pc = "populate"
        /\ \E ok \in BOOLEAN :
            IF ok
            THEN saveStatus' = [saveStatus EXCEPT ![w].pc = "cacheGet"]
            ELSE SaverCatch(w, st)
        /\ UNCHANGED <<poolVars, hpc, retryCount, savedMessage, cachedMessages, cacheFailed,
                       cacheAtStart, savesBegun, store, cache, loadVars, readVars,
                       reconnVars, updVars, termVars>>

\* A cache call of worker w has thrown: the inner catch logs and the attempt
\* returns {success: true, message: savedMessage}.
SaverRedisError(w, st) ==
    IF RedisErrorCaught
    THEN saveStatus' = [saveStatus EXCEPT ![w] =
            [st EXCEPT !.cacheFailed = TRUE, !.pc = "done"]]
    ELSE SaverCatch(w, [st EXCEPT !.cacheFailed = TRUE])

\* redisClient.get(redisKey) of worker w settles.
SaverCacheGet(w) ==
    LET st == saveStatus[w]
    IN  /\ st.pc = "cacheGet"
        /\ \E ok \in BOOLEAN :
            IF ok
            THEN saveStatus' = [saveStatus EXCEPT ![w] =
                    [st EXCEPT !.cachedMessages = OrEmptyArray(RedisGet(cache)),
                               !.pc = "cacheSet"]]
            ELSE SaverRedisError(w, st)
        /\ UNCHANGED <<poolVars, hpc, retryCount, savedMessage, cachedMessages, cacheFailed,
                       cacheAtStart, savesBegun, store, cache, loadVars, readVars,
                       reconnVars, updVars, termVars>>

\* redisClient.set(redisKey, ..., "EX", CACHE_TTL) of worker w settles.
SaverCacheSet(w) ==
    LET st == saveStatus[w]
    IN  /\ st.pc = "cacheSet"
        /\ \E ok \in BOOLEAN :
            IF ok
            THEN /\ cache' = RedisSet(SaveCacheValue(st.cachedMessages, st.savedMessage),
                                      ExOptions)
                 /\ saveStatus' = [saveStatus EXCEPT ![w].pc = "done"]
            ELSE /\ SaverRedisError(w, st)
                 /\ UNCHANGED cache
        /\ UNCHANGED <<poolVars, hpc, retryCount, savedMessage, cachedMessages, cacheFailed,
                       cacheAtStart, savesBegun, store, loadVars, readVars, reconnVars,
                       updVars, termVars>>

\* The delay of the catch of worker w has passed: initializeWorker() is awaited.
SaverDelay(w) ==
    /\ saveStatus[w].pc = "delay"
    /\ saveStatus' = [saveStatus EXCEPT ![w].pc = "reinit"]
    /\ UNCHANGED <<poolVars, hpc, retryCount, savedMessage, cachedMessages, cacheFailed,
                       cacheAtStart, savesBegun, store, cache, loadVars, readVars,
                       reconnVars, updVars, termVars>>

\* initializeWorker() of worker w settles: the next attempt, or the throw
\* leaves handleSaveMessage.
SaverReinit(w) ==
    /\ saveStatus[w].pc = "reinit"
    /\ \E ok \in BOOLEAN :
        saveStatus' = [saveStatus EXCEPT ![w].pc = IF ok THEN "create" ELSE "failed"]
    /\ UNCHANGED <<poolVars, hpc, retryCount, savedMessage, cachedMessages, cacheFailed,
                       cacheAtStart, savesBegun, store, cache, loadVars, readVars,
                       reconnVars, updVars, termVars>>

\* Two workers, in each of which processMessage has just called
\* handleSaveMessage(payload) for the same room: retryCount = 0, and the first
\* attempt awaits Message.create.
SaversInit ==
    /\ PoolInit({1})
    /\ HandlerInit(SaveEntries)
    /\ LoadOff({TRUE})
    /\ ReadOff
    /\ ReconnOff
    /\ UpdateOff
    /\ TermOff
    /\ saveStatus = [w \in {1, 2} |->
                        [pc |-> "create", retryCount |-> 0, savedMessage |-> Doc(0),
                         cachedMessages |-> JsNull, cacheFailed |-> FALSE]]

SaversNext ==
    \/ \E w \in DOMAIN saveStatus : SaverCreate(w)
    \/ \E w \in DOMAIN saveStatus : SaverPopulate(w)
    \/ \E w \in DOMAIN saveStatus : SaverCacheGet(w)
    \/ \E w \in DOMAIN saveStatus : SaverCacheSet(w)
    \/ \E w \in DOMAIN saveStatus : SaverDelay(w)
    \/ \E w \in DOMAIN saveStatus : SaverReinit(w)

SaversSpec == SaversInit /\ [][SaversNext]_vars

\* -------------------------------------------------- handleLoadMessages
\* msg.timestamp: messages are created one after the other, so the timestamp of
\* a message grows with its id.
Timestamp(m) == m.id
\* The plain object .lean() returns for a document.
Lean(m) == [m EXCEPT !.repr = "lean"]
TimestampsOf(items) == [k \in 1..Len(items) |-> Timestamp(items[k])]

\* Array.prototype.sort((a, b) => new Date(a.timestamp) - new Date(b.timestamp)):
\* a stable sort, oldest first.
RECURSIVE InsertAscending(_, _)
InsertAscending(m, sorted) ==
    IF sorted = <<>> THEN <<m>>
    ELSE IF Timestamp(m) < Timestamp(Head(sorted)) THEN <<m>> \o sorted
    ELSE <<Head(sorted)>> \o InsertAscending(m, Tail(sorted))
RECURSIVE SortAscending(_)
SortAscending(items) ==
    IF items = <<>> THEN <<>>
    ELSE InsertAscending(items[Len(items)], SortAscending(SubSeq(items, 1, Len(items) - 1)))
\* .sort({timestamp: -1}) of the query: newest first.
RECURSIVE InsertDescending(_, _)
InsertDescending(m, sorted) ==
    IF sorted = <<>> THEN <<m>>
    ELSE IF Timestamp(m) > Timestamp(Head(sorted)) THEN <<m>> \o sorted
    ELSE <<Head(sorted)>> \o InsertDescending(m, Tail(sorted))
RECURSIVE SortDescending(_)
SortDescending(items) ==
    IF items = <<>> THEN <<>>
    ELSE InsertDescending(items[Len(items)], SortDescending(SubSeq(items, 1, Len(items) - 1)))

\* messages.filter((msg) => new Date(msg.timestamp) < new Date(before)), applied
\* only when before is given (0: absent).
EarlierThan(items, before) ==
    IF before = 0 THEN items
    ELSE LET Earlier(m) == Timestamp(m) < before IN SelectSeq(items, Earlier)
\* Message.find(query).sort({timestamp: -1}).limit(limit + 1).lean(): of the
\* room's messages (earlier than before when given), the limit + 1 newest,
\* newest first, as plain objects.
MessageFind(docs, before, limit) ==
    LET found == Slice(SortDescending(EarlierThan(docs, before)), limit + 1)
    IN  [k \in 1..Len(found) |-> Lean(found[k])]
\* resultMessages.sort(...) of messages.slice(0, limit)
SortedMessages_Unsorted(items, limit) == Slice(items, limit)
SortedMessages(items, limit) == SortAscending(Slice(items, limit))
\* The object a successful attempt returns.
LoadResult(items, limit, fromCache) ==
    LET sortedMessages == SortedMessages(items, limit)
    IN  [success |-> TRUE,
         messages |-> sortedMessages,
         hasMore |-> Len(items) > limit,
         oldestTimestamp |-> IF sortedMessages = <<>> THEN 0
                             ELSE Timestamp(sortedMessages[1]),
         fromCache |-> fromCache,
         error |-> ""]

\* processMessage calls handleLoadMessages(payload): retryCount = 0, and the
\* first attempt awaits redisClient.get.
LoadBegin ==
    /\ hpc \in {"idle", "done", "failed"}
    /\ loadsBegun < MaxLoads
    /\ loadsBegun' = loadsBegun + 1
    /\ \E before \in 0..(Len(store) + 1), limit \in 1..MaxLimit :
        payload' = [before |-> before, limit |-> limit]
    /\ prevLoad' = IF loadsBegun = 0 THEN NoLoad
                   ELSE [payload |-> payload, result |-> result,
                         emptyCache |-> ~cacheAtStart.present, ran |-> TRUE]
    /\ cacheAtStart' = cache
    /\ hpc' = "loadGet"
    /\ retryCount' = 0
    /\ messages' = JsNull
    /\ result' = NoResult
    /\ storeFault' = FALSE
    /\ UNCHANGED <<notLoad, store, cache, isConnected, redisUp>>

\* The catch of the retry loop: count the failure; at RETRY_LIMIT throw "Message
\* load failed", else wait RETRY_DELAY * retryCount.
LoadCatch ==
    /\ retryCount' = retryCount + 1
    /\ IF retryCount + 1 = RETRY_LIMIT
       THEN /\ hpc' = "failed"
            /\ result' = [NoResult EXCEPT !.error = "Message load failed"]
       ELSE /\ hpc' = "loadDelay"
            /\ UNCHANGED result

\* A call of the cache client settles: when the client is not connected it
\* connects first, and a connect or a command that fails makes the call throw.
\* The server being unreachable, every call throws.
RedisCall(ok) ==
    /\ ok => redisUp
    /\ isConnected' = ok

\* redisClient.get(redisKey) settles. A truthy value is served from the cache:
\* filtered by before, cut to limit, sorted. A throw goes to the catch of the
\* retry loop.
LoadCacheGet ==
    /\ hpc = "loadGet"
    /\ \E ok \in BOOLEAN :
        /\ RedisCall(ok)
        /\ IF ok
           THEN LET got == RedisGet(cache)
                IN  IF got.type = "array"
                    THEN /\ messages' = JsArray(EarlierThan(got.items, payload.before))
                         /\ result' = LoadResult(EarlierThan(got.items, payload.before),
                                                 payload.limit, TRUE)
                         /\ hpc' = "done"
                         /\ UNCHANGED retryCount
                    ELSE /\ messages' = got
                         /\ hpc' = "find"
                         /\ UNCHANGED <<retryCount, result>>
           ELSE /\ LoadCatch
                /\ UNCHANGED messages
    /\ UNCHANGED <<notLoad, store, cache, cacheAtStart, payload, prevLoad, redisUp,
                   storeFault, loadsBegun>>

\* Message.find(...) settles: with no message found the attempt returns at
\* once, else the cache entry is written first.
LoadFind ==
    /\ hpc = "find"
    /\ \E ok \in BOOLEAN :
        IF ok
        THEN LET found == MessageFind(store, payload.before, payload.limit)
             IN  /\ messages' = JsArray(found)
                 /\ IF found = <<>>
                    THEN /\ result' = LoadResult(found, payload.limit, FALSE)
                         /\ hpc' = "done"
                    ELSE /\ hpc' = "loadSet"
                         /\ UNCHANGED result
                 /\ UNCHANGED <<retryCount, storeFault>>
        ELSE /\ LoadCatch
             /\ storeFault' = TRUE
             /\ UNCHANGED messages
    /\ UNCHANGED <<notLoad, store, cache, cacheAtStart, payload, prevLoad, isConnected,
                   redisUp, loadsBegun>>

\* redisClient.set(redisKey, messages, "EX", CACHE_TTL) settles: the attempt
\* returns the messages found; a throw goes to the catch of the retry loop.
LoadCacheSet ==
    /\ hpc = "loadSet"
    /\ \E ok \in BOOLEAN :
        /\ RedisCall(ok)
        /\ IF ok
           THEN /\ cache' = RedisSet(messages, ExOptions)
                /\ result' = LoadResult(messages.items, payload.limit, FALSE)
                /\ hpc' = "done"
                /\ UNCHANGED retryCount
           ELSE /\ LoadCatch
                /\ UNCHANGED cache
    /\ UNCHANGED <<notLoad, store, cacheAtStart, payload, messages, prevLoad, redisUp,
                   storeFault, loadsBegun>>

\* The delay of the catch has passed: initializeWorker() is awaited.
LoadDelay ==
    /\ hpc = "loadDelay"
    /\ hpc' = "loadReinit"
    /\ UNCHANGED <<notLoad, retryCount, store, cache, cacheAtStart, loadVars>>

\* initializeWorker() settles: the loop makes its next attempt, or the throw
\* leaves handleLoadMessages and the task fails.
LoadReinit ==
    /\ hpc = "loadReinit"
    /\ \E ok \in BOOLEAN :
        IF ok
        THEN /\ hpc' = "loadGet"
             /\ UNCHANGED <<result, storeFault>>
        ELSE /\ hpc' = "failed"
             /\ result' = [NoResult EXCEPT !.error = "initializeWorker failed"]
             /\ storeFault' = TRUE
    /\ UNCHANGED <<notLoad, retryCount, store, cache, cacheAtStart, payload, messages,
                   prevLoad, isConnected, redisUp, loadsBegun>>

\* The room's entry when the first task starts, for a room of n messages: absent,
\* the list the saves have built (newest first), or a list an UPDATE_CACHE task
\* wrote (here oldest first, or empty).
LoadEntries(n) ==
    {NoEntry,
     RedisSet(JsArray(CachedRun(1, n)), ExOptions),
     RedisSet(JsArray([k \in 1..n |-> Doc(k)]), ExOptions),
     RedisSet(JsArray(<<>>), ExOptions)}

LoadInit ==
    /\ PoolInit({1})
    /\ hpc = "idle"
    /\ retryCount = 0
    /\ savedMessage = Doc(0)
    /\ cachedMessages = JsNull
    /\ \E n \in 0..MaxStored : store = [k \in 1..n |-> Doc(k)]
    /\ cache \in LoadEntries(Len(store))
    /\ cacheFailed = FALSE
    /\ cacheAtStart = cache
    /\ savesBegun = 0
    /\ LoadOff(BOOLEAN)
    /\ ReadOff
    /\ ReconnOff
    /\ UpdateOff
    /\ TermOff
    /\ saveStatus = <<>>

LoadNext ==
    \/ LoadBegin
    \/ LoadCacheGet
    \/ LoadFind
    \/ LoadCacheSet
    \/ LoadDelay
    \/ LoadReinit

LoadSpec == LoadInit /\ [][LoadNext]_vars

\* -------------------------------------------------- handleReadStatus
\* A message with its read receipts: readers lists the userId of every receipt.
ReadDoc(id) == [id |-> id, repr |-> "doc", readers |-> <<>>]
HasReceipt(m, userId) == \E k \in 1..Len(m.readers) : m.readers[k] = userId

\* The chunks of the for loop: messageIds.slice(i, i + BATCH_SIZE) for
\* i = 0, BATCH_SIZE, 2 * BATCH_SIZE, ... while i < messageIds.length.
RECURSIVE ChunksFrom(_, _, _)
ChunksFrom(messageIds, i, size) ==
    IF i >= Len(messageIds) THEN <<>>
    ELSE <<SubSeq(messageIds, i + 1, Min(i + size, Len(messageIds)))>>
             \o ChunksFrom(messageIds, i + size, size)
MessageChunks_Whole(messageIds) == <<messageIds>>
MessageChunks(messageIds) == ChunksFrom(messageIds, 0, BATCH_SIZE)

\* One updateOne of the bulk write: the filter matches the message only while it
\* has no receipt of the user ("readers.userId": {$ne: userId}); $push adds one.
UpdateOne_NoFilter(m, userId) == [m EXCEPT !.readers = Append(@, userId)]
UpdateOne(m, userId) ==
    IF HasReceipt(m, userId) THEN m ELSE [m EXCEPT !.readers = Append(@, userId)]
\* The updates op[1..j] of a bulk write applied to the collection: a message
\* gets one updateOne for every occurrence of its id among them (the same id
\* can occur more than once in a chunk), an id of no message gets none.
RECURSIVE UpdateTimes(_, _, _)
UpdateTimes(m, userId, times) ==
    IF times = 0 THEN m ELSE UpdateOne(UpdateTimes(m, userId, times - 1), userId)
BulkWrite(docs, chunk, j, userId) ==
    [id \in DOMAIN docs |->
        UpdateTimes(docs[id], userId, Cardinality({k \in 1..j : chunk[k] = id}))]
\* cachedMessages.map(...): a cached message whose id is in messageIds gets a
\* receipt of the user unless readers.some(...) finds one.
PatchReaders_Always(m, messageIds, userId) ==
    IF \E k \in 1..Len(messageIds) : messageIds[k] = m.id
    THEN [m EXCEPT !.readers = Append(@, userId)]
    ELSE m
PatchReaders(m, messageIds, userId) ==
    IF (\E k \in 1..Len(messageIds) : messageIds[k] = m.id) /\ ~HasReceipt(m, userId)
    THEN [m EXCEPT !.readers = Append(@, userId)]
    ELSE m
UpdatedMessages_OnlyPatched(items, messageIds, userId) ==
    LET inSet(m) == \E k \in 1..Len(messageIds) : messageIds[k] = m.id
        kept == SelectSeq(items, inSet)
    IN  [k \in 1..Len(kept) |-> PatchReaders(kept[k], messageIds, userId)]
UpdatedMessages(items, messageIds, userId) ==
    [k \in 1..Len(items) |-> PatchReaders(items[k], messageIds, userId)]

ReadIdle == [pc |-> "idle", retryCount |-> 0,
             payload |-> [userId |-> 0, messageIds |-> <<>>],
             messageChunks |-> <<>>, chunk |-> 0, cachedMessages |-> JsNull,
             issued |-> <<>>]
\* handleReadStatus has returned {success: true}, or has thrown: its locals
\* are gone.
ReadDone == [ReadIdle EXCEPT !.pc = "done"]
ReadFailed == [ReadIdle EXCEPT !.pc = "failed"]
ReadWorkers == DOMAIN readStatus
\* The lists of message ids a task is given, for a room of n messages: the
\* first len messages, for len 0, 1, 2 and around the batch size, and the first
\* message twice.
BatchLengths == {0, 1, 2, BATCH_SIZE - 1, BATCH_SIZE, BATCH_SIZE + 1, 2 * BATCH_SIZE,
                 2 * BATCH_SIZE + 1, MaxBatchIds}
ReadLists(n) ==
    {[k \in 1..len |-> k] : len \in {l \in BatchLengths : l <= n}}
        \cup {<<1, 1>> : a \in 1..Min(n, 1)}

\* processMessage calls handleReadStatus(payload) in worker w: retryCount = 0,
\* the chunks are cut, and the first bulk write is awaited (none: the cache
\* update comes next).
ReadAttempt(w, st) ==
    readStatus' = [readStatus EXCEPT ![w] =
        [st EXCEPT !.messageChunks = MessageChunks(st.payload.messageIds),
                   !.chunk = 1,
                   !.pc = IF st.payload.messageIds = <<>> THEN "cacheGet"
                          ELSE "bulkWrite"]]
ReadBegin(w) ==
    /\ readStatus[w].pc \in {"idle", "done", "failed"}
    /\ readsLeft > 0
    /\ readsLeft' = readsLeft - 1
    /\ \E userId \in 1..MaxUsers, messageIds \in ReadLists(Len(store)) :
        ReadAttempt(w, [ReadIdle EXCEPT
                           !.payload = [userId |-> userId, messageIds |-> messageIds]])
    /\ UNCHANGED <<notRead, store, cache>>

\* The catch of the retry loop in worker w.
ReadCatch(w, st) ==
    readStatus' = [readStatus EXCEPT ![w] =
        IF st.retryCount + 1 = RETRY_LIMIT THEN ReadFailed
        ELSE [st EXCEPT !.retryCount = @ + 1, !.pc = "delay"]]

\* A cache call of handleReadStatus in worker w has thrown: the inner catch
\* logs and the attempt goes on to return {success: true}.
ReadRedisError(w, st) ==
    IF RedisErrorCaught
    THEN readStatus' = [readStatus EXCEPT ![w] = ReadDone]
    ELSE ReadCatch(w, st)

\* Message.bulkWrite(chunk ops, {ordered: false}) of worker w settles: every
\* update is applied; or the call throws with only some of them applied (none,
\* one, or all: an acknowledgement lost). Each update is atomic on its message
\* and touches no other.
ReadBulkWrite(w) ==
    LET st    == readStatus[w]
        chunk == st.messageChunks[st.chunk]
        sent  == [st EXCEPT !.issued = Append(@, chunk)]
    IN  /\ st.pc = "bulkWrite"
        /\ \E ok \in BOOLEAN, j \in {0, 1, Len(chunk)} :
            /\ ok => j = Len(chunk)
            /\ j <= Len(chunk)
            /\ store' = BulkWrite(store, chunk, j, st.payload.userId)
            /\ IF ok
               THEN readStatus' = [readStatus EXCEPT ![w] =
                        IF st.chunk = Len(st.messageChunks)
                        THEN [sent EXCEPT !.pc = "cacheGet"]
                        ELSE [sent EXCEPT !.chunk = @ + 1]]
               ELSE ReadCatch(w, sent)
        /\ UNCHANGED <<notRead, cache, readsLeft>>

\* redisClient.get(redisKey) of worker w settles: an array is patched and
\* written back; anything else, or a throw (caught by the inner catch), ends
\* the attempt with {success: true}.
ReadCacheGet(w) ==
    LET st == readStatus[w]
    IN  /\ st.pc = "cacheGet"
        /\ \E ok \in BOOLEAN :
            IF ok
            THEN readStatus' = [readStatus EXCEPT ![w] =
                    IF RedisGet(cache).type = "array"
                    THEN [st EXCEPT !.cachedMessages = RedisGet(cache), !.pc = "cacheSet"]
                    ELSE ReadDone]
            ELSE ReadRedisError(w, st)
        /\ UNCHANGED <<notRead, store, cache, readsLeft>>

\* redisClient.set(redisKey, updatedMessages, "EX", CACHE_TTL) of worker w
\* settles; a throw is caught by the inner catch.
ReadCacheSet(w) ==
    LET st == readStatus[w]
    IN  /\ st.pc = "cacheSet"
        /\ \E ok \in BOOLEAN :
            IF ok
            THEN /\ cache' = RedisSet(JsArray(UpdatedMessages(st.cachedMessages.items,
                                                              st.payload.messageIds,
                                                              st.payload.userId)),
                                      ExOptions)
                 /\ readStatus' = [readStatus EXCEPT ![w] = ReadDone]
            ELSE /\ ReadRedisError(w, st)
                 /\ UNCHANGED cache
        /\ UNCHANGED <<notRead, store, readsLeft>>

\* The delay of the catch has passed: initializeWorker() is awaited.
ReadDelay(w) ==
    /\ readStatus[w].pc = "delay"
    /\ readStatus' = [readStatus EXCEPT ![w].pc = "reinit"]
    /\ UNCHANGED <<notRead, store, cache, readsLeft>>

\* initializeWorker() settles: the loop makes its next attempt from the first
\* chunk, or the throw leaves handleReadStatus and the task fails.
ReadReinit(w) ==
    /\ readStatus[w].pc = "reinit"
    /\ \E ok \in BOOLEAN :
        IF ok
        THEN ReadAttempt(w, readStatus[w])
        ELSE readStatus' = [readStatus EXCEPT ![w] = ReadFailed]
    /\ UNCHANGED <<notRead, store, cache, readsLeft>>

\* A room of n messages without receipts, its cache entry absent or listing all
\* of them newest first; the workers ws; budget tasks to run.
ReadInit(ws, n, budget) ==
    /\ PoolInit({1})
    /\ hpc = "idle"
    /\ retryCount = 0
    /\ savedMessage = Doc(0)
    /\ cachedMessages = JsNull
    /\ store = [k \in 1..n |-> ReadDoc(k)]
    /\ cache \in {NoEntry, RedisSet(JsArray([k \in 1..n |-> ReadDoc(n + 1 - k)]), ExOptions)}
    /\ cacheFailed = FALSE
    /\ cacheAtStart = cache
    /\ savesBegun = 0
    /\ LoadOff({TRUE})
    /\ ReconnOff
    /\ UpdateOff
    /\ TermOff
    /\ saveStatus = <<>>
    /\ readStatus = [w \in ws |-> ReadIdle]
    /\ readsLeft = budget

ReadNext ==
    \/ \E w \in ReadWorkers : ReadBegin(w)
    \/ \E w \in ReadWorkers : ReadBulkWrite(w)
    \/ \E w \in ReadWorkers : ReadCacheGet(w)
    \/ \E w \in ReadWorkers : ReadCacheSet(w)
    \/ \E w \in ReadWorkers : ReadDelay(w)
    \/ \E w \in ReadWorkers : ReadReinit(w)

\* Two workers share the store and the cache: tasks run one after the other in
\* a worker and at the same time in different workers.
ReadersInit == ReadInit({1, 2}, MaxMsgs, MaxReads)
ReadSpec == ReadersInit /\ [][ReadNext]_vars
\* One worker, one task, over up to MaxBatchIds message ids.
BatchInit == ReadInit({1}, MaxBatchIds, 1)
BatchSpec == BatchInit /\ [][ReadNext]_vars

\* -------------------------------------- initializeWorker, reconnectWithBackoff
\* Math.pow(2, attempt)
RECURSIVE Pow2(_)
Pow2(n) == IF n = 0 THEN 1 ELSE 2 * Pow2(n - 1)
\* const backoffMs = Math.min(1000 * Math.pow(2, attempt), 10000)
backoffMs_NoCap(attempt) == 1000 * Pow2(attempt)
backoffMs(attempt) == Min(1000 * Pow2(attempt), 10000)

\* A run of reconnectWithBackoff and of its recursive calls: the attempt it is
\* at, where it stands, the delays it has waited or is waiting, and how each
\* initializeWorker() it awaited ended.
NewRun == [attempt |-> 1, phase |-> "wait", waits |-> <<backoffMs(1)>>, outcomes |-> <<>>]
Runs == 1..Len(runs)
Active(r) == runs[r].phase \in {"wait", "close", "connect"}

\* The connection emits 'error': the listener calls reconnectWithBackoff().
ConnectionError ==
    /\ ~exited
    /\ Len(runs) < MaxRuns
    /\ runs' = Append(runs, NewRun)
    /\ UNCHANGED <<notReconn, readyState, exited>>

\* The connection is lost and emits 'disconnected': the listener calls
\* reconnectWithBackoff().
ConnectionLost ==
    /\ ~exited
    /\ readyState = 1
    /\ Len(runs) < MaxRuns
    /\ readyState' = 0
    /\ runs' = Append(runs, NewRun)
    /\ UNCHANGED <<notReconn, exited>>

\* The delay of run r has passed: initializeWorker() is called, which closes
\* the connection first unless readyState is 0.
RunDelayPassed(r) ==
    /\ ~exited
    /\ runs[r].phase = "wait"
    /\ runs' = [runs EXCEPT ![r].phase = IF readyState # 0 THEN "close" ELSE "connect"]
    /\ UNCHANGED <<notReconn, readyState, exited>>

\* The catch of reconnectWithBackoff: the recursive call with attempt + 1, which
\* ends the thread when attempt + 1 > maxAttempts and waits backoffMs otherwise.
RunAttemptFailed(r) ==
    LET failed == [runs[r] EXCEPT !.outcomes = Append(@, "failed")]
    IN  IF runs[r].attempt + 1 > MaxReconnectAttempts
        THEN /\ runs' = [runs EXCEPT ![r] = [failed EXCEPT !.attempt = @ + 1,
                                                           !.phase = "exit"]]
             /\ exited' = TRUE
        ELSE /\ runs' = [runs EXCEPT ![r] =
                    [failed EXCEPT !.attempt = @ + 1,
                                   !.phase = "wait",
                                   !.waits = Append(@, backoffMs(runs[r].attempt + 1))]]
             /\ UNCHANGED exited

\* mongoose.connection.close() of run r settles: the connection is closed and
\* emits 'disconnected', whose listener (still registered) calls
\* reconnectWithBackoff(); or close throws and the attempt has failed.
RunClose(r) ==
    /\ ~exited
    /\ runs[r].phase = "close"
    /\ \E ok \in BOOLEAN :
        IF ok
        THEN /\ Len(runs) < MaxRuns
             /\ readyState' = 0
             /\ runs' = Append([runs EXCEPT ![r].phase = "connect"], NewRun)
             /\ UNCHANGED exited
        ELSE /\ RunAttemptFailed(r)
             /\ UNCHANGED readyState
    /\ UNCHANGED notReconn

\* mongoose.connect(...) of run r settles: connected, the listeners are
\* registered anew and the run ends; or it throws and the attempt has failed.
RunConnect(r) ==
    /\ ~exited
    /\ runs[r].phase = "connect"
    /\ \E ok \in BOOLEAN :
        IF ok
        THEN /\ readyState' = 1
             /\ runs' = [runs EXCEPT ![r].phase = "done",
                                     ![r].outcomes = Append(@, "connected")]
             /\ UNCHANGED exited
        ELSE /\ RunAttemptFailed(r)
             /\ UNCHANGED readyState
    /\ UNCHANGED notReconn

\* The worker has been initialized: the store is connected, the listeners are
\* registered, no reconnection runs.
ReconnInit ==
    /\ PoolInit({1})
    /\ HandlerInit({NoEntry})
    /\ LoadOff({TRUE})
    /\ ReadOff
    /\ UpdateOff
    /\ TermOff
    /\ saveStatus = <<>>
    /\ readyState = 1
    /\ runs = <<>>
    /\ exited = FALSE

ReconnNext ==
    \/ ConnectionError
    \/ ConnectionLost
    \/ \E r \in Runs : RunDelayPassed(r)
    \/ \E r \in Runs : RunClose(r)
    \/ \E r \in Runs : RunConnect(r)

ReconnSpec == ReconnInit /\ [][ReconnNext]_vars

\* -------------------------------------------------- handleUpdateCache
\* The value handleUpdateCache writes: payload.messages as given.
UpdateCacheValue_Capped(list) == JsArray(Slice(list, CacheCap))
UpdateCacheValue(list) == JsArray(list)
\* The lists an UPDATE_CACHE task is given, of plain objects: the first len
\* messages, len = 0..MaxPrevLen, newest first or oldest first, and a list longer
\* than the cap of the other handlers.
UpdateLists ==
    {[k \in 1..len |-> Lean(Doc(len + 1 - k))] : len \in 0..MaxPrevLen}
        \cup {[k \in 1..len |-> Lean(Doc(k))] : len \in 0..MaxPrevLen}
        \cup {[k \in 1..(CacheCap + 1) |-> Lean(Doc(k))]}

\* processMessage calls handleUpdateCache(payload): retryCount = 0, and the first
\* attempt awaits redisClient.set.
UpdateBegin ==
    /\ hpc \in {"idle", "done", "failed"}
    /\ updatesBegun < MaxUpdates
    /\ updatesBegun' = updatesBegun + 1
    /\ prevUpdate' = IF updatesBegun = 0 THEN NoUpdate
                     ELSE [messages |-> updMessages, cacheAfter |-> cache,
                           ok |-> hpc = "done"]
    /\ updMessages' \in UpdateLists
    /\ cacheAtStart' = cache
    /\ hpc' = "updSet"
    /\ retryCount' = 0
    /\ UNCHANGED <<notUpdate, cache>>

\* redisClient.set(redisKey, messages, "EX", CACHE_TTL) settles: the task
\* returns {success: true}; or it throws, with the entry written or not, and
\* the catch counts the failure, gives up at RETRY_LIMIT and waits otherwise.
UpdateCacheSet ==
    /\ hpc = "updSet"
    /\ \E ok \in BOOLEAN, written \in BOOLEAN :
        /\ ok => written
        /\ cache' = IF written THEN RedisSet(UpdateCacheValue(updMessages), ExOptions)
                    ELSE cache
        /\ IF ok
           THEN hpc' = "done" /\ UNCHANGED retryCount
           ELSE /\ retryCount' = retryCount + 1
                /\ hpc' = IF retryCount + 1 = RETRY_LIMIT THEN "failed" ELSE "updDelay"
    /\ UNCHANGED <<notUpdate, cacheAtStart, updVars>>

\* The delay of the catch has passed: the loop makes its next attempt (without
\* initializeWorker()).
UpdateDelay ==
    /\ hpc = "updDelay"
    /\ hpc' = "updSet"
    /\ UNCHANGED <<notUpdate, retryCount, cache, cacheAtStart, updVars>>

UpdateInit ==
    /\ PoolInit({1})
    /\ HandlerInit(SaveEntries)
    /\ XOff

UpdateNext ==
    \/ UpdateBegin
    \/ UpdateCacheSet
    \/ UpdateDelay

UpdateSpec == UpdateInit /\ [][UpdateNext]_vars

\* -------------------------------------------------- WorkerManager.terminate
\* How the async callback of workers.map settles once worker.terminate() has:
\* the catch logs a rejection, so the callback's promise is fulfilled either way.
Wrapper_NoCatch(ok) == IF ok THEN "fulfilled" ELSE "rejected"
Wrapper(ok) == "fulfilled"

\* terminate() is called: map runs the callback of every worker up to its
\* await, so worker.terminate() is called on each; Promise.all is awaited.
Terminate ==
    /\ shutdown = "idle"
    /\ shutdown' = "pending"
    /\ termination' = [i \in Workers |-> [call |-> "pending", wrapper |-> "pending"]]
    /\ UNCHANGED notTerm

\* worker.terminate() of worker i settles: fulfilled, the thread having stopped
\* (the Worker emits 'exit' unless it had exited before); or rejected, the
\* thread stopped or not.
TerminationSettles(i) ==
    /\ termination[i].call = "pending"
    /\ \E ok \in BOOLEAN, stops \in BOOLEAN :
        /\ ok => stops
        /\ termination' = [termination EXCEPT
                              ![i] = [call |-> IF ok THEN "ok" ELSE "threw",
                                      wrapper |-> Wrapper(ok)]]
        /\ IF stops /\ Alive(i)
           THEN ProcessExit(i, "terminate")
           ELSE UNCHANGED <<wrkVars, toManager, exitCause, orphaned>>
    /\ UNCHANGED <<mgrVars, received, started, replied, faultHandled, survivors, hVars,
                   loadVars, readVars, reconnVars, updVars, shutdown, saveStatus>>

\* Promise.all(terminationPromises) settles: rejected as soon as one callback's
\* promise is rejected, fulfilled when all are fulfilled; terminate() settles
\* the same way.
PromiseAll ==
    /\ shutdown = "pending"
    /\ IF \E i \in Workers : termination[i].wrapper = "rejected"
       THEN shutdown' = "rejected"
       ELSE /\ \A i \in Workers : termination[i].wrapper = "fulfilled"
            /\ shutdown' = "fulfilled"
    /\ UNCHANGED <<notTerm, termination>>

\* A pool of up to MaxWorkers workers with no task submitted, shut down at any
\* point of its workers' start-up.
TermInit ==
    /\ PoolInit(1..MaxWorkers)
    /\ HandlerInit({NoEntry})
    /\ XOff

TermNext ==
    \/ \E i \in Workers : WorkerInitialized(i)
    \/ \E i \in Workers : WorkerInitFailed(i)
    \/ \E i \in Workers : OnWorkerExit(i)
    \/ Terminate
    \/ \E i \in Workers : TerminationSettles(i)
    \/ PromiseAll

TermSpec == TermInit /\ [][TermNext]_vars

\* The pool with its tasks, shut down at any point: tasks are submitted,
\* processed and replied to before, while and after terminate() runs.
ShutdownNext ==
    \/ TermNext
    \/ \E type \in TaskTypes : ExecuteTask(type)
    \/ \E i \in Workers : OnWorkerMessage(i)
    \/ \E i \in Workers : OnPortMessage(i)
    \/ \E i \in Workers : RunImmediate(i)
    \/ \E i \in Workers : CompleteTask(i)

ShutdownSpec == TermInit /\ [][ShutdownNext]_vars

\* ------------------------------------- one worker running its tasks
\* The switch of processMessage: the handler called for a type, "throw" for
\* the default case (throw new Error("Unknown message type")).
HandlerOf_DefaultSave(type) == IF type \in KnownTypes THEN type ELSE "SAVE_MESSAGE"
HandlerOf(type) == IF type \in KnownTypes THEN type ELSE "throw"

\* executeTask, with at most MaxSaves SAVE_MESSAGE tasks among the tasks:
\* those begun and those a worker holds whose handler has not been called yet.
TaskSubmit(type) ==
    LET saves(q) == Cardinality({k \in 1..Len(q) : q[k].type = "SAVE_MESSAGE"})
        waiting(i) == saves(port[i]) + saves(messageQueue[i])
                        + (IF hpc = "idle"
                           THEN Cardinality({m \in current[i] : m.type = "SAVE_MESSAGE"})
                           ELSE 0)
    IN  /\ type = "SAVE_MESSAGE" =>
                \A i \in Workers : savesBegun + waiting(i) < MaxSaves
        /\ ExecuteTask(type)

\* processMessage(currentMessage.data) of the task in flight reaches the case
\* of its type: handleSaveMessage(payload) is called.
TaskCall(i) ==
    /\ wstate[i] = "running"
    /\ hpc = "idle"
    /\ \E m \in current[i] : HandlerOf(m.type) = "SAVE_MESSAGE"
    /\ SaveBegin

\* The awaited processMessage of the task in flight returns: at once with
\* {error} from its catch when the switch threw, else with what the handler
\* returned or with {error} when the handler threw. The reply is posted and the
\* finally block runs.
TaskReturns(i) ==
    /\ wstate[i] = "running"
    /\ \E m \in current[i] :
        LET h  == HandlerOf(m.type)
            oc == IF h = "throw" \/ hpc = "failed" THEN "err" ELSE "ok"
            f  == FinallyBlock(oc, messageQueue[i], isProcessing[i], immediates[i])
        IN  /\ h = "throw" \/ hpc \in {"done", "failed"}
            /\ toManager' = [toManager EXCEPT ![i] = Append(@, Reply(m.id, TRUE, oc))]
            /\ replied' = [replied EXCEPT ![i] = Append(@, m.id)]
            /\ current' = [current EXCEPT ![i] = @ \ {m}]
            /\ isProcessing' = [isProcessing EXCEPT ![i] = f.busy]
            /\ immediates' = [immediates EXCEPT ![i] = f.immediates]
    /\ hpc' = "idle"
    /\ UNCHANGED <<mgrVars, wstate, port, messageQueue, reconnect, received, started,
                   exitCause, faultHandled, survivors, orphaned, retryCount, savedMessage,
                   cachedMessages, store, cache, cacheFailed, cacheAtStart, savesBegun,
                   xVars>>

TaskInit == PoolInit({1}) /\ HandlerInit({NoEntry}) /\ XOff

TaskNext ==
    \/ \E type \in TaskTypes : TaskSubmit(type)
    \/ \E i \in Workers : WorkerInitialized(i)
    \/ \E i \in Workers : OnPortMessage(i)
    \/ \E i \in Workers : RunImmediate(i)
    \/ \E i \in Workers : OnWorkerMessage(i)
    \/ \E i \in Workers : TaskCall(i)
    \/ SaveCreate
    \/ SavePopulate
    \/ SaveCacheGet
    \/ SaveCacheSet
    \/ SaveDelay
    \/ SaveReinit
    \/ \E i \in Workers : TaskReturns(i)

TaskSpec == TaskInit /\ [][TaskNext]_vars

\* =================================================================
\* Properties of the pool
\* =================================================================
\* The manager handles the 'error' event of worker i in this step.
ErrorStep(i) ==
    /\ toManager[i] # <<>>
    /\ Head(toManager[i]).ev = "error"
    /\ toManager'[i] = Tail(toManager[i])
\* The manager handles a reply of worker i in this step.
MessageStep(i) ==
    /\ toManager[i] # <<>>
    /\ Head(toManager[i]).ev = "message"
    /\ toManager'[i] = Tail(toManager[i])
OwnedBy(i) == {id \in Pending : messageCallbacks[id].workerId = i}
RejectedByError == <<[how |-> "reject", by |-> "error"]>>

\* C1: every task submitted through executeTask has its continuation settled,
\* also when a worker stops. Stated on the states from which nothing more can
\* reach the task: once the task's worker has stopped and the manager has
\* handled every event that worker emitted, the task has been settled.
C1_EveryTaskSettled ==
    \A id \in Submitted :
        (~Alive(tasks[id].worker) /\ toManager[tasks[id].worker] = <<>>)
            => settled[id] # <<>>

\* C2: no correlation id is settled more than once: a settled entry has been
\* removed from the pending table, and no later reply or worker error settles
\* it again.
C2_SettledAtMostOnce ==
    \A id \in TaskIds :
        /\ Len(settled[id]) <= 1
        /\ settled[id] # <<>> => id \notin Pending
\* A task settled by its worker's reply, whose worker faulted afterwards and had
\* its 'error' handled.
C2_Witness ==
    \E id \in Submitted :
        /\ settled[id] # <<>>
        /\ settled[id][1].by = "message"
        /\ tasks[id].worker \in faultHandled

\* C3: the k-th submission (from 0) goes to worker k mod N, so N consecutive
\* submissions use every worker exactly once, whatever happens in between.
C3_RoundRobin ==
    /\ \A id \in Submitted :
        /\ tasks[id].worker = (id - 1) % workerCount
        /\ id \in Pending => messageCallbacks[id].workerId = (id - 1) % workerCount
    /\ \A k \in Submitted :
        (k + workerCount - 1) \in Submitted =>
            /\ {tasks[j].worker : j \in k..(k + workerCount - 1)} = Workers
            /\ \A a, b \in k..(k + workerCount - 1) :
                   tasks[a].worker = tasks[b].worker => a = b
\* The index has wrapped around while an earlier task was already settled and a
\* worker had faulted.
C3_Witness ==
    /\ workerCount > 1
    /\ Cardinality(Submitted) > workerCount
    /\ \E a \in Submitted : settled[a] # <<>> /\ a < Cardinality(Submitted)
    /\ faultHandled # {}

\* C4: the 'error' handler of worker i rejects, in that one step, every pending
\* entry owned by i and removes it: no entry owned by i is left.
C4_FaultRejectsOwned ==
    [][\A i \in Workers :
        ErrorStep(i) =>
            /\ \A id \in OwnedBy(i) :
                /\ settled'[id] = Append(settled[id], RejectedByError[1])
                /\ id \notin DOMAIN messageCallbacks'
            /\ \A id \in DOMAIN messageCallbacks' : messageCallbacks'[id].workerId # i
      ]_vars
\* The fault of a worker with two pending entries has been handled.
C4_Witness ==
    \E i \in faultHandled :
        \E a, b \in Submitted :
            /\ a # b
            /\ tasks[a].worker = i /\ tasks[b].worker = i
            /\ settled[a] = RejectedByError /\ settled[b] = RejectedByError

C6_ReconnectExitRejectsPending ==
    \A i \in Workers :
        (exitCause[i] = "reconnect" /\ toManager[i] = <<>>) =>
            \A id \in orphaned : tasks[id].worker = i => settled[id] # <<>>

\* C7: a worker has at most one task in flight: a task arriving while another
\* is processed is only appended to the queue, and no task starts before the
\* reply of the one before it has been posted.
C7_SingleTaskInFlight ==
    [][\A i \in Workers :
        /\ (isProcessing[i] /\ Len(received'[i]) = Len(received[i]) + 1) =>
              /\ messageQueue'[i] = Append(messageQueue[i], Head(port[i]))
              /\ current'[i] = current[i]
              /\ started'[i] = started[i]
        /\ Cardinality(current'[i]) <= 1
        /\ Len(started'[i]) <= Len(replied'[i]) + 1
        /\ current'[i] # {} => isProcessing'[i]
      ]_vars
\* A task is in flight while another waits in the queue and a setImmediate run
\* of processMessageQueue is still due.
C7_Witness ==
    \E i \in Workers :
        /\ current[i] # {}
        /\ Len(messageQueue[i]) > 0
        /\ immediates[i] > 0

\* C8: a worker starts its tasks in the order it received them, and posts the
\* reply of each before it starts the next.
C8_WorkerFifo ==
    \A i \in Workers :
        /\ Len(started[i]) <= Len(received[i])
        /\ started[i] = SubSeq(received[i], 1, Len(started[i]))
        /\ Len(replied[i]) <= Len(started[i])
        /\ replied[i] = SubSeq(started[i], 1, Len(replied[i]))
        /\ Len(started[i]) <= Len(replied[i]) + 1
\* Two tasks waited in the queue behind a third, and the second of the three has
\* been started after the first one's reply.
C8_Witness ==
    \E i \in Workers :
        /\ Len(received[i]) >= 3
        /\ Len(replied[i]) >= 1
        /\ Len(started[i]) >= 2
        /\ Len(messageQueue[i]) >= 1

\* C9: a task that failed in the worker (unknown type, retries exhausted) has
\* its continuation rejected; only a task that succeeded has it resolved.
C9_FailedTaskRejected ==
    [][\A i \in Workers :
        (MessageStep(i) /\ Head(toManager[i]).id \in Pending) =>
            LET m == Head(toManager[i])
            IN  settled'[m.id] =
                    <<[how |-> IF m.error \/ m.resultError THEN "reject" ELSE "resolve",
                       by |-> "message"]>>
      ]_vars

\* =================================================================
\* Properties of the handlers
\* =================================================================
\* The items of a cache entry; none when the key is absent.
EntryItems(e) == IF e.present THEN e.text.items ELSE <<>>

\* C10: after a successful SAVE_MESSAGE whose cache update did not fail, the
\* room's cached list has length min(previous length + 1, 100), the new message
\* is its first element, and the previously cached messages follow in their
\* previous order.
C10_SaveCacheShape ==
    (hpc = "done" /\ ~cacheFailed) =>
        LET before == EntryItems(cacheAtStart)
            after  == EntryItems(cache)
        IN  /\ cache.present
            /\ cache.text.type = "array"
            /\ Len(after) = Min(Len(before) + 1, CacheCap)
            /\ after[1] = ToJSON(savedMessage)
            /\ savedMessage = store[Len(store)]
            /\ \A k \in 2..Len(after) : after[k] = before[k - 1]
\* A save succeeded on a retry, with the cache updated, on a list that was
\* already at the cap: the last cached message was dropped.
C10_Witness ==
    /\ hpc = "done" /\ ~cacheFailed
    /\ retryCount > 0
    /\ Len(EntryItems(cacheAtStart)) = CacheCap
    /\ Len(EntryItems(cache)) = CacheCap

\* C11: every write of the room's cache entry by a handler leaves the entry
\* with a time-to-live of CACHE_TTL seconds. Here for SAVE_MESSAGE: once a save
\* has written the entry, the entry carries that time-to-live.
C11_WriteSetsTtl ==
    (hpc = "done" /\ ~cacheFailed) => cache.ttl = CACHE_TTL

\* C12: pagination. For a room of at least 2 * limit messages and an absent
\* cache entry, a first LOAD_MESSAGES without before returns the limit newest
\* messages, oldest first, with hasMore; the follow-up with before = the first
\* call's oldestTimestamp returns the next limit older messages, and hasMore is
\* false when the room holds exactly 2 * limit messages.
C12_Pagination ==
    LET limit == payload.limit
        n     == Len(store)
    IN  (/\ hpc = "done" /\ result.success
         /\ prevLoad.ran /\ prevLoad.emptyCache /\ prevLoad.result.success
         /\ prevLoad.payload = [before |-> 0, limit |-> limit]
         /\ payload.before = prevLoad.result.oldestTimestamp
         /\ n >= 2 * limit)
        => /\ TimestampsOf(prevLoad.result.messages) = [k \in 1..limit |-> n - limit + k]
           /\ prevLoad.result.hasMore
           /\ TimestampsOf(result.messages) = [k \in 1..limit |-> n - 2 * limit + k]
           /\ n = 2 * limit => ~result.hasMore

\* Whether a store call of the task has failed, for a task that has ended.
LoadEnded == loadsBegun > 0 /\ hpc \in {"done", "failed"}
\* C13: with the cache server unreachable and the cache client disconnected, a
\* LOAD_MESSAGES task that meets no store failure succeeds, with the messages
\* of the store and fromCache = false.
C13_LoadWithoutCache ==
    (LoadEnded /\ ~redisUp /\ ~storeFault) =>
        /\ hpc = "done"
        /\ result.success
        /\ ~result.fromCache
        /\ result.messages =
               SortAscending(Slice(MessageFind(store, payload.before, payload.limit),
                                   payload.limit))

\* C19: a successful LOAD_MESSAGES result, from the cache or from the store, holds
\* at most limit messages, oldest first, all earlier than before when before is
\* given, and oldestTimestamp is the smallest timestamp returned, or null (0)
\* when nothing is returned.
C19_LoadResultShape ==
    (LoadEnded /\ result.success) =>
        LET ts == TimestampsOf(result.messages)
        IN  /\ Len(ts) <= payload.limit
            /\ \A j, k \in 1..Len(ts) : j < k => ts[j] <= ts[k]
            /\ payload.before # 0 => \A k \in 1..Len(ts) : ts[k] < payload.before
            /\ IF ts = <<>> THEN result.oldestTimestamp = 0
               ELSE /\ \E k \in 1..Len(ts) : result.oldestTimestamp = ts[k]
                    /\ \A k \in 1..Len(ts) : result.oldestTimestamp <= ts[k]
\* A page served from a cache entry that lists the newest message first: before
\* given, as many messages as asked for, more than one, and more to come.
C19_Witness ==
    /\ LoadEnded /\ result.success /\ result.fromCache
    /\ payload.before # 0
    /\ payload.limit > 1
    /\ Len(result.messages) = payload.limit
    /\ result.hasMore
    /\ Len(EntryItems(cache)) > 1
    /\ Timestamp(EntryItems(cache)[1]) > Timestamp(EntryItems(cache)[2])

\* The chunks of a list put back together.
RECURSIVE Flatten(_)
Flatten(chunks) == IF chunks = <<>> THEN <<>> ELSE Head(chunks) \o Flatten(Tail(chunks))
\* C14: an UPDATE_READ_STATUS task over n message ids that met no store failure
\* has issued exactly ceil(n / BATCH_SIZE) bulk writes when it turns to the
\* cache, each over 1..BATCH_SIZE ids, and the chunks in the order issued make
\* up the given list: every id once, in the given order.
C14_BatchesIssued ==
    \A w \in ReadWorkers :
        LET st  == readStatus[w]
            ids == st.payload.messageIds
        IN  (st.pc \in {"cacheGet", "cacheSet"} /\ st.retryCount = 0) =>
                /\ Len(st.issued) = (Len(ids) + BATCH_SIZE - 1) \div BATCH_SIZE
                /\ \A k \in 1..Len(st.issued) :
                    Len(st.issued[k]) >= 1 /\ Len(st.issued[k]) <= BATCH_SIZE
                /\ Flatten(st.issued) = ids
\* A task over 250 ids that met no failure has issued 3 bulk writes, the last
\* one over 50 ids.
C14_Witness ==
    \E w \in ReadWorkers :
        LET st == readStatus[w]
        IN  /\ st.pc = "cacheGet" /\ st.retryCount = 0
            /\ Len(st.payload.messageIds) = 2 * BATCH_SIZE + 50
            /\ Len(st.issued) = 3
            /\ Len(st.issued[3]) = 50

\* No message carries two receipts of one user.
ReceiptsUnique(m) ==
    \A j, k \in 1..Len(m.readers) : j # k => m.readers[j] # m.readers[k]
NoDuplicateReceipt ==
    /\ \A id \in DOMAIN store : ReceiptsUnique(store[id])
    /\ \A k \in 1..Len(EntryItems(cache)) : ReceiptsUnique(EntryItems(cache)[k])
\* The bulk write of a task of user u leaves every message alone that has a
\* receipt of u, and the cache write of the task leaves every message it read
\* with a receipt of u as it read it.
ReinvokeChangesNothing ==
    \A w \in ReadWorkers :
        LET st == readStatus[w]
            u  == st.payload.userId
        IN  /\ (st.pc = "bulkWrite" /\ readStatus'[w] # st) =>
                \A id \in DOMAIN store :
                    HasReceipt(store[id], u) => store'[id] = store[id]
            /\ (st.pc = "cacheSet" /\ readStatus'[w] # st /\ cache' # cache) =>
                /\ Len(EntryItems(cache')) = Len(st.cachedMessages.items)
                /\ \A k \in 1..Len(st.cachedMessages.items) :
                    HasReceipt(st.cachedMessages.items[k], u) =>
                        EntryItems(cache')[k] = st.cachedMessages.items[k]
\* C15: read receipts are never duplicated. After any UPDATE_READ_STATUS tasks,
\* one after the other or at the same time in two workers, retried or not, every
\* message of the store and of the cache entry has at most one receipt per user,
\* and a task of a user adds nothing to a message holding that user's receipt.
C15_NoDuplicateReceipts == []NoDuplicateReceipt /\ [][ReinvokeChangesNothing]_vars
\* Two tasks of one user over the same message are past their bulk writes at the
\* same time, one of them on a retry, both about to patch a cached copy without
\* the receipt; the message has the user's receipt in the store.
C15_Witness ==
    \E u \in 1..MaxUsers :
        /\ \A w \in {1, 2} :
            /\ w \in ReadWorkers
            /\ readStatus[w].pc = "cacheSet"
            /\ readStatus[w].payload.userId = u
            /\ readStatus[w].payload.messageIds # <<>>
            /\ readStatus[w].payload.messageIds[1] = 1
            /\ \E k \in 1..Len(readStatus[w].cachedMessages.items) :
                /\ readStatus[w].cachedMessages.items[k].id = 1
                /\ ~HasReceipt(readStatus[w].cachedMessages.items[k], u)
        /\ readStatus[1].retryCount > 0
        /\ store[1].readers = <<u>>

\* The delays of attempts 1..5, in ms.
ExpectedWaits == <<2000, 4000, 8000, 10000, 10000>>
\* C16: a reconnect run waits min(1000 * 2^k, 10000) ms before attempt k for
\* k = 1..5, makes no sixth attempt, ends the thread after the 5th failed
\* attempt and only then, and makes no attempt after one that succeeded.
C16_BackoffSchedule ==
    \A r \in Runs :
        LET run == runs[r]
            n   == Len(run.outcomes)
        IN  /\ Len(run.waits) <= 5
            /\ n <= 5
            /\ \A k \in 1..Len(run.waits) :
                /\ run.waits[k] = ExpectedWaits[k]
                /\ run.waits[k] = Min(1000 * 2^k, 10000)
            /\ \A k \in 1..n : run.outcomes[k] = "connected" => (k = n /\ run.phase = "done")
            /\ run.phase = "done" <=> (n > 0 /\ run.outcomes[n] = "connected")
            /\ run.phase = "exit" <=> (n = 5 /\ \A k \in 1..5 : run.outcomes[k] = "failed")
            /\ run.phase = "exit" => exited
            /\ Len(run.waits) = IF run.phase \in {"done", "exit"} THEN n ELSE n + 1
\* One run has ended the thread after five failed attempts, having waited all
\* five delays, and another run had connected at its third attempt.
C16_Witness ==
    \E r, q \in Runs :
        /\ runs[r].phase = "exit" /\ exited
        /\ runs[r].waits = ExpectedWaits
        /\ runs[q].phase = "done"
        /\ Len(runs[q].outcomes) = 3

\* C20: at most one reconnectWithBackoff run is active in a worker at any time,
\* whatever the order of the connection's 'error' and 'disconnected' events and
\* of the close initializeWorker performs.
C20_SingleReconnectRun ==
    \A r, q \in Runs : (Active(r) /\ Active(q)) => r = q

\* C17: a successful UPDATE_CACHE leaves the room's entry holding exactly the
\* given list (each message in its JSON form, same length, same order), whatever
\* the entry held before; and run again with the same list it leaves the entry
\* as the first run left it.
C17_UpdateOverwrites ==
    (hpc = "done" /\ updatesBegun > 0) =>
        /\ cache.present
        /\ cache.text.type = "array"
        /\ Len(EntryItems(cache)) = Len(updMessages)
        /\ \A k \in 1..Len(updMessages) : EntryItems(cache)[k] = ToJSON(updMessages[k])
        /\ (prevUpdate.ok /\ prevUpdate.messages = updMessages) =>
               cache = prevUpdate.cacheAfter
\* The same list longer than 100 messages written twice, the second time on a
\* retry, over an entry that first held something else.
C17_Witness ==
    /\ hpc = "done" /\ updatesBegun = 2
    /\ retryCount > 0
    /\ prevUpdate.ok /\ prevUpdate.messages = updMessages
    /\ Len(updMessages) = CacheCap + 1
    /\ Len(EntryItems(cache)) = CacheCap + 1

\* C18: once terminate() is called, worker.terminate() has been called on every
\* worker of the pool, whatever became of the others'; terminate() is fulfilled
\* only when every one of them has settled, and it is never rejected.
C18_ShutdownBestEffort ==
    /\ shutdown # "idle" => \A i \in Workers : termination[i].call # "none"
    /\ shutdown = "fulfilled" => \A i \in Workers : termination[i].call \in {"ok", "threw"}
    /\ shutdown # "rejected"
\* Shutdown of two workers has completed though the termination of one was
\* rejected; the other worker was terminated and its thread has stopped.
C18_Witness ==
    /\ shutdown = "fulfilled"
    /\ \E i, j \in Workers :
        /\ termination[i].call = "threw"
        /\ termination[j].call = "ok"
        /\ exitCause[j] = "terminate"

\* C21: a task is attempted at most RETRY_LIMIT times and fails only after its
\* RETRY_LIMIT-th failed attempt, with the handler's own error. Here for
\* LOAD_MESSAGES: retryCount counts the failed attempts of the task.
C21_FailsAfterThirdAttempt ==
    loadsBegun > 0 =>
        /\ retryCount <= RETRY_LIMIT
        /\ hpc = "failed" =>
            /\ retryCount = RETRY_LIMIT
            /\ result.error = "Message load failed"

\* A retry attempt starts in this step: the first call of an attempt is awaited
\* after at least one attempt has failed.
RetryStarts ==
    /\ hpc' # hpc
    /\ hpc' \in {"create", "loadGet", "updSet"}
    /\ retryCount' > 0
\* C22: after a failed attempt the store connection is re-initialized before
\* the next attempt starts: a retry attempt is started by the step in which
\* initializeWorker() settles. Here for UPDATE_CACHE.
C22_ReinitBeforeRetry ==
    [][RetryStarts => hpc \in {"reinit", "loadReinit"}]_vars

\* C25: the room's cache entry holds at most 100 messages whichever handler
\* wrote it. Here for UPDATE_CACHE: the entry a successful task leaves.
C25_CacheAtMostHundred ==
    (hpc = "done" /\ updatesBegun > 0) => Len(EntryItems(cache)) <= CacheCap

\* C30: a LOAD_MESSAGES served from the entry that the LOAD_MESSAGES before it
\* populated, the room unchanged in between, returns the messages and the
\* hasMore that the store would give for the same before and limit.
C30_CacheServesAsStore ==
    LET fromStore == LoadResult(MessageFind(store, payload.before, payload.limit),
                                payload.limit, FALSE)
    IN  (/\ LoadEnded /\ result.success /\ result.fromCache
         /\ prevLoad.ran /\ prevLoad.result.success /\ ~prevLoad.result.fromCache
         /\ prevLoad.result.messages # <<>>)
        => /\ TimestampsOf(result.messages) = TimestampsOf(fromStore.messages)
           /\ result.hasMore = fromStore.hasMore


\* C23: a cache failure never fails or retries a SAVE_MESSAGE or
\* UPDATE_READ_STATUS task. Once the store operation of an attempt has
\* succeeded (the handler is at its cache read or cache write), every step of
\* that handler, the cache call failing or not, goes on to the cache write or
\* to the successful return of that same attempt: the retry counter is not
\* incremented, no delay or re-initialization follows, and the store and the
\* saved message are left as they are.
SaveCacheStep ==
    hpc \in {"cacheGet", "cacheSet"} =>
        /\ hpc' \in {hpc, "cacheSet", "done"}
        /\ retryCount' = retryCount
        /\ store' = store
        /\ savedMessage' = savedMessage
ReadCacheStep ==
    \A w \in ReadWorkers :
        (readStatus[w].pc \in {"cacheGet", "cacheSet"} /\ readStatus'[w] # readStatus[w]) =>
            /\ readStatus'[w].pc \in {"cacheSet", "done"}
            /\ readStatus'[w].pc = "cacheSet" => readStatus'[w].retryCount = readStatus[w].retryCount
            /\ store' = store
PatchChangesOnlyReaders ==
    \A w \in ReadWorkers :
        LET st   == readStatus[w]
            ids  == st.payload.messageIds
            read == st.cachedMessages.items
            new  == EntryItems(cache')
        IN  (st.pc = "cacheSet" /\ readStatus'[w] # st /\ cache' # cache) =>
                /\ cache'.present
                /\ Len(new) = Len(read)
                /\ \A k \in 1..Len(read) :
                    /\ [new[k] EXCEPT !.readers = read[k].readers] = read[k]
                    /\ IF \E j \in 1..Len(ids) : ids[j] = read[k].id
                       THEN new[k].readers \in
                                {read[k].readers, Append(read[k].readers, st.payload.userId)}
                       ELSE new[k] = read[k]
\* C26: the UPDATE_READ_STATUS cache patch changes only the readers of cached
\* messages whose id is in the update set. The list a task writes back has the
\* length and order of the list it read, messages outside the update set and
\* all other fields of patched messages are as read, and no step of the handler
\* creates an entry for a room that has none.
C26_PatchFrame ==
    /\ [][PatchChangesOnlyReaders]_vars
    /\ [][~cache.present => ~cache'.present]_vars
\* A task over message 1 alone has patched an entry of two messages: the cached
\* copy of message 1 has a receipt, that of message 2 has none, in the order the
\* entry had.
C26_Witness ==
    /\ \E w \in ReadWorkers : readStatus[w].pc = "done"
    /\ Len(EntryItems(cache)) = 2
    /\ EntryItems(cache)[1].id = 2 /\ EntryItems(cache)[1].readers = <<>>
    /\ EntryItems(cache)[2].id = 1 /\ EntryItems(cache)[2].readers # <<>>


\* A message event that reports the failure of a task.
IsFailureReply(e) == e.ev = "message" /\ (e.resultError \/ e.error)
\* Worker i posts the failure reply of a task: its in-flight flag is cleared, the
\* thread stays up, its queue and its port keep what they hold, the next run is
\* scheduled when the queue is not empty, and nothing of the manager or of
\* another worker changes.
FailureLeavesWorker ==
    \A i \in Workers :
        (/\ Len(replied'[i]) = Len(replied[i]) + 1
         /\ toManager'[i] # <<>>
         /\ IsFailureReply(toManager'[i][Len(toManager'[i])])) =>
            /\ isProcessing'[i] = FALSE
            /\ wstate' = wstate
            /\ messageQueue' = messageQueue
            /\ port' = port
            /\ messageQueue[i] # <<>> => immediates'[i] = immediates[i] + 1
            /\ mgrVars' = mgrVars
            /\ \A j \in Workers \ {i} :
                /\ isProcessing'[j] = isProcessing[j]
                /\ current'[j] = current[j]
                /\ immediates'[j] = immediates[j]
\* The manager handles the failure reply of a task: at most the entry of that
\* task is removed, the round-robin index and every worker are as before.
FailureLeavesManager ==
    \A i \in Workers :
        (/\ toManager[i] # <<>>
         /\ IsFailureReply(Head(toManager[i]))
         /\ toManager'[i] = Tail(toManager[i])) =>
            /\ currentWorkerIndex' = currentWorkerIndex
            /\ wrkVars' = wrkVars
            /\ messageCallbacks' = Without(messageCallbacks, {Head(toManager[i]).id})
\* An idle running worker with queued tasks has a run of processMessageQueue
\* scheduled.
QueueKeepsMoving ==
    \A i \in Workers :
        (wstate[i] = "running" /\ ~isProcessing[i] /\ messageQueue[i] # <<>>) =>
            immediates[i] > 0
\* C27: a task-level failure never disturbs the pool. When a task fails its
\* worker returns to idle and keeps its queue, with the next run scheduled, and
\* neither the failure reply nor its handling by the manager changes the
\* round-robin index or the pending entries of other tasks.
C27_TaskFailureLeavesPool ==
    /\ []QueueKeepsMoving
    /\ [][FailureLeavesWorker /\ FailureLeavesManager]_vars
\* A worker has posted the failure reply of its first task, which the manager
\* has not handled yet, and has started its next task, while a task of another
\* worker is pending.
C27_Witness ==
    \E i \in Workers :
        /\ Len(replied[i]) = 1
        /\ toManager[i] # <<>>
        /\ IsFailureReply(Head(toManager[i]))
        /\ Head(toManager[i]).id = replied[i][1]
        /\ Len(started[i]) = 2
        /\ isProcessing[i]
        /\ \E id \in Pending : messageCallbacks[id].workerId # i


\* C29: a task routed to a worker that has faulted is still settled. Stated on
\* the states from which nothing more can reach the task: once the manager has
\* handled the 'error' of the task's faulted worker and every other event that
\* worker emitted, the task has been settled (a task still pending then was
\* submitted after the 'error' was handled, since the handler rejects every
\* entry of the worker).
C29_TaskToFaultedWorkerSettled ==
    \A id \in Submitted :
        LET w == tasks[id].worker
        IN  (wstate[w] = "faulted" /\ w \in faultHandled /\ toManager[w] = <<>>)
                => settled[id] # <<>>


\* C28: a SAVE_MESSAGE task creates at most one message record, whatever
\* failures and retries occur during it. Stated for the first task: the room
\* starts with as many records as the entry the task found lists, and during
\* and after the task the store holds at most one record more.
C28_AtMostOneRecordPerSave ==
    savesBegun = 1 => Len(store) <= Len(EntryItems(cacheAtStart)) + 1


\* The task in flight in worker i has a type the switch does not know.
UnknownInFlight(i) == \E m \in current[i] : m.type \notin KnownTypes
\* While such a task is in flight no handler runs and none is started: the
\* retry counter, the store, the cache and every other variable of the handlers
\* stay as they are; and the step that ends the task posts its failure reply.
UnknownFailsAtOnce ==
    \A i \in Workers :
        UnknownInFlight(i) =>
            /\ hpc = "idle"
            /\ hVars' = hVars
            /\ \A m \in current[i] \ current'[i] :
                /\ toManager'[i] = Append(toManager[i], MessageEvent(m.id, FALSE, TRUE))
                /\ replied'[i] = Append(replied[i], m.id)
\* No task is replied to twice.
RepliedOnce ==
    \A i \in Workers : \A j, k \in 1..Len(replied[i]) :
        j # k => replied[i][j] # replied[i][k]
\* C24: a task with an unrecognized type fails immediately: exactly one failure
\* reply is posted for it, with no retry, no back-off delay, no store
\* re-initialization and no store or cache access.
C24_UnknownTypeFailsAtOnce == []RepliedOnce /\ [][UnknownFailsAtOnce]_vars
\* After a SAVE_MESSAGE task that stored its record, a task of unknown type has
\* been replied to with a failure: one task only has entered a handler, no
\* attempt was retried, and the store holds the one record.
C24_Witness ==
    /\ replied[0] = <<1, 2>>
    /\ toManager[0] # <<>>
    /\ toManager[0][Len(toManager[0])] = MessageEvent(2, FALSE, TRUE)
    /\ savesBegun = 1
    /\ retryCount = 0
    /\ Len(store) = 1
    /\ hpc = "idle"


\* C33: a handler with retries gives up only after its 3rd failed attempt; a
\* failure of the re-initialization between attempts does not end the task
\* earlier. A SAVE_MESSAGE task that has ended in failure has counted
\* RETRY_LIMIT failed attempts.
C33_GivesUpOnlyAfterThirdAttempt ==
    (savesBegun > 0 /\ hpc = "failed") => retryCount = RETRY_LIMIT


\* C32: when shutdown has completed no pending entry is left unsettled. Once
\* terminate() is fulfilled and the manager has handled every event its workers
\* emitted, every task that was pending on a worker when worker.terminate()
\* stopped its thread has been settled.
C32_ShutdownSettlesPending ==
    (shutdown = "fulfilled" /\ \A i \in Workers : toManager[i] = <<>>) =>
        \A id \in orphaned :
            exitCause[tasks[id].worker] = "terminate" => settled[id] # <<>>


\* Both SAVE_MESSAGE tasks have returned success and no cache call of theirs
\* threw.
BothSaved ==
    \A w \in DOMAIN saveStatus : saveStatus[w].pc = "done" /\ ~saveStatus[w].cacheFailed
\* The room's cache entry lists message m.
Cached(m) == \E k \in 1..Len(EntryItems(cache)) : EntryItems(cache)[k].id = m.id
\* The cache read of worker w returned the message worker v saved: it came
\* after the cache write of v.
ReadAfterWriteOf(w, v) ==
    \E k \in 1..Len(saveStatus[w].cachedMessages.items) :
        saveStatus[w].cachedMessages.items[k].id = saveStatus[v].savedMessage.id
\* C31: when two SAVE_MESSAGE tasks for the same room are processed on different
\* workers and both succeed without cache errors, the room's cache entry
\* afterwards contains both saved messages, under every interleaving of the two
\* workers' cache reads and writes.
C31_BothMessagesCached ==
    BothSaved => \A w \in DOMAIN saveStatus : Cached(saveStatus[w].savedMessage)
\* The cache write of worker w stores the message it saved followed by the list
\* it read, cut to CacheCap messages.
WriteIsSavedThenRead ==
    \A w \in DOMAIN saveStatus :
        LET st   == saveStatus[w]
            read == st.cachedMessages.items
            new  == EntryItems(cache')
        IN  (st.pc = "cacheSet" /\ saveStatus'[w].pc = "done"
                /\ ~saveStatus'[w].cacheFailed) =>
                /\ Len(new) = Min(Len(read) + 1, CacheCap)
                /\ new[1] = ToJSON(st.savedMessage)
                /\ \A k \in 2..Len(new) : new[k] = ToJSON(read[k - 1])
\* After both tasks the entry starts with the message of one of them, and it
\* lists both when the cache read of one came after the cache write of the other.
LastWriteWins ==
    BothSaved =>
        /\ \E w \in DOMAIN saveStatus : EntryItems(cache)[1].id = saveStatus[w].savedMessage.id
        /\ \A w, v \in DOMAIN saveStatus :
            (w # v /\ ReadAfterWriteOf(w, v)) =>
                /\ Cached(saveStatus[w].savedMessage)
                /\ Cached(saveStatus[v].savedMessage)
\* C31 as amended: the entry afterwards starts with the saved message of the
\* task whose cache write came last, followed by the list that task read; it
\* contains both saved messages when that task's cache read came after the
\* other task's cache write.
C31_LastWriteWins == []LastWriteWins /\ [][WriteIsSavedThenRead]_vars
\* Both tasks have succeeded without cache errors, worker 2 having read the
\* entry after worker 1 wrote it: the entry lists the message of worker 2 and
\* then that of worker 1.
C31_Witness ==
    /\ BothSaved
    /\ ReadAfterWriteOf(2, 1)
    /\ Len(EntryItems(cache)) >= 2
    /\ EntryItems(cache)[1].id = saveStatus[2].savedMessage.id
    /\ EntryItems(cache)[2].id = saveStatus[1].savedMessage.id

====
